---------------------------- MODULE Spec2Model ----------------------------
(* A model of the actix_scraper service: the /scrape handler, do_scrape,   *)
(* Scraper::new / setup_evasions / scrape / Drop, and auto_login with its  *)
(* helpers.  One request is followed from the handler to its response and  *)
(* to the teardown of its browser session.  Every driver call (launch,     *)
(* new_page, execute, goto, evaluate, find_element) is an input of the     *)
(* step that makes it: its result is drawn from the outcomes the driver    *)
(* can produce.                                                            *)
EXTENDS Integers, Sequences, FiniteSets, TLC

\* ------------------------------------------------------------------ bounds
\* largest number of cookies a request carries
MaxCookies == 2

\* --------------------------------------------------------------- constants
\* scraper.rs:207  for _ in 0..20  (body probes)
BodyProbes == 20
\* scraper.rs:128  for _ in 0..5   (lazy-load scroll rounds)
ScrollRounds == 5
\* login.rs:345    for attempt in 0..3  (cookie banner dismissals)
BannerAttempts == 3
\* login.rs:724    for _ in 0..2   (post-login prompt dismissals)
PromptAttempts == 2
\* -------------------------------------------------------------------- URLs
\* A URL is a sequence of tokens; str::starts_with and str::contains are
\* the prefix and the contiguous-subsequence relations on it.
StartsWith(s, p) ==
    /\ Len(p) <= Len(s)
    /\ \A i \in 1..Len(p) : s[i] = p[i]

Contains(s, p) ==
    \E k \in 0..(Len(s) - Len(p)) : \A i \in 1..Len(p) : s[k + i] = p[i]

EmptyUrl == << >>
BlankUrl == <<"about:blank">>

\* the domain fragments auto_login looks for that occur, as substrings, in
\* a token
FragmentsOf(tok) ==
    CASE tok = "github.com" -> {"github.com"}
      [] tok = "accounts.google.com" -> {"google.com", "accounts.google.com"}
      [] tok = "mail.google.com" -> {"google.com"}
      [] tok = "www.linkedin.com" -> {"linkedin.com"}
      [] tok = "twitter.com" -> {"twitter.com"}
      [] tok = "x.com" -> {"x.com"}
      [] tok = "www.reddit.com" -> {"reddit.com"}
      [] tok = "login.live.com" -> {"login.live.com"}
      [] tok = "dropbox.com" -> {"x.com"}
      [] tok = "/share?u=linkedin.com" -> {"linkedin.com"}
      [] tok = "/r/github.com" -> {"github.com"}
      [] OTHER -> {}

UrlHas(url, frag) == \E i \in 1..Len(url) : frag \in FragmentsOf(url[i])

\* login.rs:447-458  the platform derived from the target URL
DetectPlatform(target_url) ==
    IF \/ UrlHas(target_url, "google.com") \/ UrlHas(target_url, "gmail.com")
       \/ UrlHas(target_url, "accounts.google.com") THEN "google"
    ELSE IF UrlHas(target_url, "linkedin.com") THEN "linkedin"
    ELSE IF UrlHas(target_url, "reddit.com") THEN "reddit"
    ELSE IF UrlHas(target_url, "facebook.com") THEN "facebook"
    ELSE IF UrlHas(target_url, "twitter.com") \/ UrlHas(target_url, "x.com")
         THEN "twitter"
    ELSE IF UrlHas(target_url, "github.com") THEN "github"
    ELSE IF UrlHas(target_url, "instagram.com") THEN "instagram"
    ELSE IF UrlHas(target_url, "microsoft.com")
            \/ UrlHas(target_url, "login.live.com") THEN "microsoft"
    ELSE "generic"

\* ------------------------------------------------------- platform catalog
\* str::to_lowercase on the platform ids the model uses
to_lowercase(s) ==
    CASE s \in {"LinkedIn", "LINKEDIN"} -> "linkedin"
      [] s \in {"Facebook", "FACEBOOK"} -> "facebook"
      [] s \in {"Twitter", "TWITTER"} -> "twitter"
      [] s = "X" -> "x"
      [] s \in {"GitHub", "GITHUB"} -> "github"
      [] s \in {"Instagram", "INSTAGRAM"} -> "instagram"
      [] s \in {"Reddit", "REDDIT"} -> "reddit"
      [] s \in {"Google", "GOOGLE"} -> "google"
      [] s = "Microsoft" -> "microsoft"
      [] s = "Generic" -> "generic"
      [] s = "MyShop" -> "myshop"
      [] OTHER -> s

\* GenericConfig without submit selectors
GenericConfig_NoSubmit ==
    [login_url |-> EmptyUrl,
     email_selectors |-> <<"input[type='email']", "input[name='email']",
                           "input[id='email']", "input[name='username']",
                           "input[id='username']",
                           "input[placeholder*='email' i]",
                           "input[placeholder*='username' i]">>,
     password_selectors |-> <<"input[type='password']",
                              "input[name='password']",
                              "input[id='password']">>,
     submit_selectors |-> << >>,
     wait_after_login |-> 5,
     additional_checks |-> << >>,
     has_checks |-> FALSE]

\* config.rs:140-162  the profile of the `_` arm
GenericConfig ==
    [login_url |-> EmptyUrl,
     email_selectors |-> <<"input[type='email']", "input[name='email']",
                           "input[id='email']", "input[name='username']",
                           "input[id='username']",
                           "input[placeholder*='email' i]",
                           "input[placeholder*='username' i]">>,
     password_selectors |-> <<"input[type='password']",
                              "input[name='password']",
                              "input[id='password']">>,
     submit_selectors |-> <<"button[type='submit']", "input[type='submit']">>,
     wait_after_login |-> 5,
     additional_checks |-> << >>,
     has_checks |-> FALSE]

\* get_platform_config matching the id as given
get_platform_config_CaseSensitive(platform) ==
    LET p == platform IN
    CASE p = "linkedin" ->
        [login_url |-> <<"https://", "www.linkedin.com", "/login">>,
         email_selectors |-> <<"#username", "input[name='session_key']",
                               "input[id='username']">>,
         password_selectors |-> <<"#password",
                                  "input[name='session_password']",
                                  "input[id='password']">>,
         submit_selectors |-> <<"button[type='submit']",
                                "button[data-litms-control-urn*='login-submit']",
                                ".login__form_action_container button">>,
         wait_after_login |-> 8,
         additional_checks |-> <<".global-nav__me", ".feed-identity-module">>,
         has_checks |-> TRUE]
      [] p = "facebook" ->
        [login_url |-> <<"https://", "www.facebook.com", "/login">>,
         email_selectors |-> <<"#email", "input[name='email']",
                               "input[type='text'][name='email']">>,
         password_selectors |-> <<"#pass", "input[name='pass']",
                                  "input[type='password'][name='pass']">>,
         submit_selectors |-> <<"button[name='login']",
                                "button[type='submit']", "#loginbutton">>,
         wait_after_login |-> 6,
         additional_checks |-> <<"[aria-label='Your profile']",
                                 "[data-pagelet='LeftRail']">>,
         has_checks |-> TRUE]
      [] p \in {"twitter", "x"} ->
        [login_url |-> <<"https://", "twitter.com", "/i/flow/login">>,
         email_selectors |-> <<"input[name='text']",
                               "input[autocomplete='username']",
                               "input[name='session[username_or_email]']">>,
         password_selectors |-> <<"input[name='password']",
                                  "input[type='password']",
                                  "input[autocomplete='current-password']">>,
         submit_selectors |-> <<"[role='button'][data-testid*='LoginForm_Login_Button']",
                                "button[type='submit']",
                                "[data-testid='LoginForm_Login_Button']">>,
         wait_after_login |-> 7,
         additional_checks |-> <<"[data-testid='SideNav_AccountSwitcher_Button']",
                                 "[aria-label='Home timeline']">>,
         has_checks |-> TRUE]
      [] p = "github" ->
        [login_url |-> <<"https://", "github.com", "/login">>,
         email_selectors |-> <<"#login_field", "input[name='login']">>,
         password_selectors |-> <<"#password", "input[name='password']">>,
         submit_selectors |-> <<"input[type='submit'][value='Sign in']",
                                "input[name='commit']">>,
         wait_after_login |-> 5,
         additional_checks |-> <<"[aria-label='Global navigation']",
                                 ".Header-link--user">>,
         has_checks |-> TRUE]
      [] p = "instagram" ->
        [login_url |-> <<"https://", "www.instagram.com", "/accounts/login/">>,
         email_selectors |-> <<"input[name='username']",
                               "input[aria-label='Phone number, username, or email']">>,
         password_selectors |-> <<"input[name='password']",
                                  "input[type='password']">>,
         submit_selectors |-> <<"button[type='submit']">>,
         wait_after_login |-> 6,
         additional_checks |-> <<"[aria-label='Home']", "svg[aria-label='Home']">>,
         has_checks |-> TRUE]
      [] p = "reddit" ->
        [login_url |-> <<"https://", "www.reddit.com", "/login/">>,
         email_selectors |-> <<"#loginUsername", "input[name='username']">>,
         password_selectors |-> <<"#loginPassword", "input[name='password']">>,
         submit_selectors |-> <<"button[type='submit']",
                                ".AnimatedForm__submitButton">>,
         wait_after_login |-> 5,
         additional_checks |-> <<"[id*='USER_DROPDOWN']",
                                 "button[aria-label*='User']">>,
         has_checks |-> TRUE]
      [] OTHER -> GenericConfig

\* config.rs:10-164  match platform.to_lowercase().as_str()
get_platform_config(platform) ==
    LET p == to_lowercase(platform) IN
    CASE p = "linkedin" ->
        [login_url |-> <<"https://", "www.linkedin.com", "/login">>,
         email_selectors |-> <<"#username", "input[name='session_key']",
                               "input[id='username']">>,
         password_selectors |-> <<"#password",
                                  "input[name='session_password']",
                                  "input[id='password']">>,
         submit_selectors |-> <<"button[type='submit']",
                                "button[data-litms-control-urn*='login-submit']",
                                ".login__form_action_container button">>,
         wait_after_login |-> 8,
         additional_checks |-> <<".global-nav__me", ".feed-identity-module">>,
         has_checks |-> TRUE]
      [] p = "facebook" ->
        [login_url |-> <<"https://", "www.facebook.com", "/login">>,
         email_selectors |-> <<"#email", "input[name='email']",
                               "input[type='text'][name='email']">>,
         password_selectors |-> <<"#pass", "input[name='pass']",
                                  "input[type='password'][name='pass']">>,
         submit_selectors |-> <<"button[name='login']",
                                "button[type='submit']", "#loginbutton">>,
         wait_after_login |-> 6,
         additional_checks |-> <<"[aria-label='Your profile']",
                                 "[data-pagelet='LeftRail']">>,
         has_checks |-> TRUE]
      [] p \in {"twitter", "x"} ->
        [login_url |-> <<"https://", "twitter.com", "/i/flow/login">>,
         email_selectors |-> <<"input[name='text']",
                               "input[autocomplete='username']",
                               "input[name='session[username_or_email]']">>,
         password_selectors |-> <<"input[name='password']",
                                  "input[type='password']",
                                  "input[autocomplete='current-password']">>,
         submit_selectors |-> <<"[role='button'][data-testid*='LoginForm_Login_Button']",
                                "button[type='submit']",
                                "[data-testid='LoginForm_Login_Button']">>,
         wait_after_login |-> 7,
         additional_checks |-> <<"[data-testid='SideNav_AccountSwitcher_Button']",
                                 "[aria-label='Home timeline']">>,
         has_checks |-> TRUE]
      [] p = "github" ->
        [login_url |-> <<"https://", "github.com", "/login">>,
         email_selectors |-> <<"#login_field", "input[name='login']">>,
         password_selectors |-> <<"#password", "input[name='password']">>,
         submit_selectors |-> <<"input[type='submit'][value='Sign in']",
                                "input[name='commit']">>,
         wait_after_login |-> 5,
         additional_checks |-> <<"[aria-label='Global navigation']",
                                 ".Header-link--user">>,
         has_checks |-> TRUE]
      [] p = "instagram" ->
        [login_url |-> <<"https://", "www.instagram.com", "/accounts/login/">>,
         email_selectors |-> <<"input[name='username']",
                               "input[aria-label='Phone number, username, or email']">>,
         password_selectors |-> <<"input[name='password']",
                                  "input[type='password']">>,
         submit_selectors |-> <<"button[type='submit']">>,
         wait_after_login |-> 6,
         additional_checks |-> <<"[aria-label='Home']", "svg[aria-label='Home']">>,
         has_checks |-> TRUE]
      [] p = "reddit" ->
        [login_url |-> <<"https://", "www.reddit.com", "/login/">>,
         email_selectors |-> <<"#loginUsername", "input[name='username']">>,
         password_selectors |-> <<"#loginPassword", "input[name='password']">>,
         submit_selectors |-> <<"button[type='submit']",
                                ".AnimatedForm__submitButton">>,
         wait_after_login |-> 5,
         additional_checks |-> <<"[id*='USER_DROPDOWN']",
                                 "button[aria-label*='User']">>,
         has_checks |-> TRUE]
      [] OTHER -> GenericConfig

\* login.rs:327-339
get_login_url(platform, target_url) ==
    CASE platform = "google" -> <<"https://", "accounts.google.com", "/signin">>
      [] platform = "linkedin" -> <<"https://", "www.linkedin.com", "/login">>
      [] platform = "reddit" -> <<"https://", "www.reddit.com", "/login/">>
      [] platform = "github" -> <<"https://", "github.com", "/login">>
      [] platform = "facebook" -> <<"https://", "www.facebook.com", "/login/">>
      [] platform \in {"twitter", "x"} ->
            <<"https://", "twitter.com", "/i/flow/login">>
      [] platform = "instagram" ->
            <<"https://", "www.instagram.com", "/accounts/login/">>
      [] platform = "microsoft" -> <<"https://", "login.live.com", "/">>
      [] OTHER -> target_url

\* login.rs:566
MultiStepPlatforms ==
    {"google", "linkedin", "twitter", "x", "facebook", "microsoft"}


\* ------------------------------------------------------------ Option<T>
\* Option<T>: None is the empty tuple, Some(x) the one-element tuple
Some(x) == <<x>>
NoneOpt == << >>
unwrap_or(o, d) == IF o = << >> THEN d ELSE o[1]

\* ------------------------------------------------------------- the inputs
\* scraper.rs:131  document.body.scrollHeight values a page reports
Heights == {0, 1}

TargetUrls ==
    { <<"https://", "example.com", "/profile">>,
      <<"https://", "github.com", "/settings">> }

CustomLoginUrl == <<"https://", "example.com", "/signin">>

\* model.rs:12-32  LoginCredentials; cookie_auth is a fact about the site:
\* the supplied cookies alone give an authenticated page at the target URL
CredentialFields ==
    [platform : {NoneOpt, Some("LinkedIn"), Some("linkedin"), Some("google")},
     login_url : {NoneOpt, Some(CustomLoginUrl)},
     email_selector : {NoneOpt, Some("#user")},
     password_selector : {NoneOpt, Some("#pw")},
     submit_selector : {NoneOpt, Some("#go")},
     cookies : {NoneOpt} \cup {Some(n) : n \in 1..MaxCookies},
     cookie_auth : BOOLEAN]

\* the optional fields a request sets
OptionalsSet(c) ==
    {f \in {"platform", "login_url", "email_selector", "password_selector",
            "submit_selector", "cookies"} : c[f] # NoneOpt}

\* the requests tried set at most one optional field, or the selectors of
\* both the email and the password field; only cookies that were supplied
\* can authenticate
CredentialsSet ==
    { c \in CredentialFields :
        /\ \/ Cardinality(OptionalsSet(c)) <= 1
           \/ OptionalsSet(c) = {"email_selector", "password_selector"}
        /\ c.cookie_auth => c.cookies # NoneOpt }

Requests ==
    [url : TargetUrls, login : {NoneOpt} \cup {Some(c) : c \in CredentialsSet}]

\* where a successful goto(u) leaves the page: at u, or at the login page
\* the site redirects to
Landing(u) == {u, <<u[1], u[2], "/login">>}

\* where the page is after the form was submitted
PostSubmitUrls(cur, target) ==
    {cur, target, Append(target, "?ref=login"), SubSeq(target, 1, 2)}

\* ------------------------------------------------------------------ state
VARIABLES
    req,          \* handlers.rs:10-11  the request: url and login
    pc,           \* the position of the request in handler/do_scrape/auto_login
    browser,      \* the browser session of the request
    handlerTask,  \* the background event task spawned in Scraper::new
    evasion,      \* how setup_evasions ended
    curUrl,       \* the URL the page is at
    steps,        \* the page operations performed so far
    platform,     \* auto_login: the resolved platform id
    loginUrl,     \* auto_login: the resolved login URL
    cnt,          \* the counter of the running loop
    lastHeight,   \* scroll_for_lazy_content: last_height
    post,         \* the indicators the post-submit page really shows
    probe,        \* the results of the classification probes
    alRet,        \* the value auto_login returned
    meta,         \* scrape: (login_attempted, login_success, platform_detected, requires_2fa)
    result,       \* the value do_scrape returned
    response,     \* the ScrapeResponse the handler sent
    call,         \* the function call followed step by step (CallSpec)
    sessions      \* the requests in flight side by side (SessionSpec)

requestVars == <<req, pc, browser, handlerTask, evasion, curUrl, steps,
                 platform, loginUrl, cnt, lastHeight, post, probe, alRet,
                 meta, result, response>>

vars == <<call, sessions, req, pc, browser, handlerTask, evasion, curUrl,
          steps, platform, loginUrl, cnt, lastHeight, post, probe, alRet,
          meta, result, response>>

NoPost == [shown |-> FALSE, captcha |-> FALSE, tfa |-> FALSE, err |-> FALSE]
NoProbe == [ran |-> FALSE]
NoMeta == [set |-> FALSE]
NoRet == [kind |-> "none"]

NoCall == [fn |-> "none"]
NoSessions == << >>

\* a request that has been received and not yet served
Fresh ==
    /\ pc = "handler"
    /\ browser = "none"
    /\ handlerTask = "none"
    /\ evasion = "pending"
    /\ curUrl = EmptyUrl
    /\ steps = {}
    /\ platform = ""
    /\ loginUrl = EmptyUrl
    /\ cnt = 0
    /\ lastHeight = -1
    /\ post = NoPost
    /\ probe = NoProbe
    /\ alRet = NoRet
    /\ meta = NoMeta
    /\ result = NoRet
    /\ response = NoRet

Init ==
    /\ req \in Requests
    /\ Fresh
    /\ call = NoCall
    /\ sessions = NoSessions

credentials == req.login[1]

\* ------------------------------------------------- Scraper::new, do_scrape
\* errors.rs:5-13  an Err(ScrapeError) of do_scrape
ScrapeErr(variant) == [kind |-> "err", error |-> variant]

\* scraper.rs:25-50  the browser configuration is built and unwrapped, the
\* browser launched and the handler task spawned.  A configuration that
\* cannot be built (no browser executable found) makes unwrap() panic: the
\* task of the request ends inside Scraper::new, do_scrape returns nothing
\* and the handler builds no response
Launch ==
    /\ pc = "handler"
    /\ \E outcome \in {"ok", "launch_err", "build_err"} :
        CASE outcome = "ok" ->
                /\ browser' = "running"
                /\ handlerTask' = "running"
                /\ pc' = "new_page"
                /\ UNCHANGED <<result, steps>>
          [] outcome = "launch_err" ->
                /\ result' = ScrapeErr("BrowserLaunch")
                /\ pc' = "respond"
                /\ steps' = steps \cup {"launch_failed"}
                /\ UNCHANGED <<browser, handlerTask>>
          [] outcome = "build_err" ->
                /\ pc' = "panicked"
                /\ steps' = steps \cup {"build_panic"}
                /\ UNCHANGED <<browser, handlerTask, result>>
    /\ UNCHANGED <<call, sessions, req, evasion, curUrl, platform, loginUrl, cnt,
                   lastHeight, post, probe, alRet, meta, response>>

\* scraper.rs:55-58  browser.new_page; on Err the local browser is dropped
\* before any Scraper exists, so Drop for Scraper never runs for it
NewPage ==
    /\ pc = "new_page"
    /\ \E ok \in BOOLEAN :
        IF ok
        THEN /\ curUrl' = BlankUrl
             /\ pc' = "evasions"
             /\ UNCHANGED <<browser, result>>
        ELSE /\ result' = ScrapeErr("PageCreation")
             /\ browser' = "abandoned"
             /\ pc' = "respond"
             /\ UNCHANGED curUrl
    /\ steps' = IF pc' = "respond" THEN steps \cup {"page_failed"} ELSE steps
    /\ UNCHANGED <<call, sessions, req, handlerTask, evasion, platform, loginUrl, cnt,
                   lastHeight, post, probe, alRet, meta, response>>

\* scraper.rs:73-122  the three page.execute calls, each followed by `?`
EvasionSteps == <<"user_agent", "viewport", "script">>

\* scraper.rs:63  Self::setup_evasions(&page).await?
EvasionAborts(failed) == failed # "ok"

SetupEvasions ==
    /\ pc = "evasions"
    /\ \E failAt \in 0..Len(EvasionSteps) :
        LET outcome == IF failAt = 0 THEN "ok" ELSE EvasionSteps[failAt] IN
        /\ evasion' = outcome
        /\ IF EvasionAborts(outcome)
           THEN /\ result' = ScrapeErr("EvaluationFailed")
                /\ browser' = "abandoned"
                /\ pc' = "respond"
           ELSE /\ pc' = "scrape_login"
                /\ UNCHANGED <<browser, result>>
    /\ UNCHANGED <<call, sessions, req, handlerTask, curUrl, steps, platform, loginUrl, cnt,
                   lastHeight, post, probe, alRet, meta, response>>


\* ------------------------------------------------------------- auto_login
\* login.rs:443  the Ok((success, platform, tfa)) and Err values of auto_login
LoginOk(success, plat, tfa) ==
    [kind |-> "ok", success |-> success, platform |-> Some(plat),
     tfa |-> Some(tfa)]
LoginErr(msg) == [kind |-> "err", error |-> msg]

\* login.rs:100-123  the selectors of the catalog and of the requests that
\* hold no single quote.  The probe embeds the selector in a single-quoted
\* script string after replace("'", "\\'").replace("\\", "\\\\"): a quote
\* becomes \\' , which ends the string, the script does not parse and the
\* evaluation fails (ProbeScriptParses computes this on characters)
QuoteFreeSelectors ==
    {"#username", "#password", ".login__form_action_container button",
     "#email", "#pass", "#loginbutton", "#login_field", "#loginUsername",
     "#loginPassword", ".AnimatedForm__submitButton", ".global-nav__me",
     ".feed-identity-module", ".Header-link--user", "#identifierId",
     "input[type=\"email\"]", "input[name=\"identifier\"]",
     "input[name=\"session_key\"]", "input[autocomplete=\"username\"]",
     "input[name=\"username\"]", "input[placeholder*=\"Username\" i]",
     "input[name=\"login\"]", "input[name=\"email\"]",
     "input[autocomplete=\"email\"]", "input[type=\"password\"]",
     "input[name=\"Passwd\"]", "input[name=\"session_password\"]",
     "input[name=\"password\"]", "input[placeholder*=\"Password\" i]",
     "button[type=\"submit\"]", "input[type=\"submit\"]",
     "button[id*=\"submit\" i]", "#user", "#pw", "#go"}

\* login.rs:100-123  is_visible of one probe: the script must parse and the
\* selector must match a visible element
is_visible(selector, visible) ==
    selector \in QuoteFreeSelectors /\ selector \in visible

\* login.rs:88-137  wait_for_any_element over a page whose set of visible
\* selectors does not change during the wait: the first selector in list
\* order whose probe returns true, None when no probe does
wait_for_any_element(selectors, visible) ==
    IF \E i \in 1..Len(selectors) : is_visible(selectors[i], visible)
    THEN Some(selectors[CHOOSE i \in 1..Len(selectors) :
                  /\ is_visible(selectors[i], visible)
                  /\ \A j \in 1..(i - 1) : ~is_visible(selectors[j], visible)])
    ELSE NoneOpt

\* the visibility assignments a wait is tried on
Visibilities(selectors) ==
    {{}} \cup {{selectors[i]} : i \in 1..Len(selectors)}
         \cup {{selectors[i] : i \in 1..Len(selectors)}}

\* the outcomes of type_into_field / click_element: Ok(true), Ok(false), Err
EvalBool == {"true", "false", "err"}

\* login.rs:488-520
email_selectors(cred, config, plat) ==
    IF cred.email_selector # NoneOpt THEN <<cred.email_selector[1]>>
    ELSE IF config.email_selectors # << >> THEN config.email_selectors
    ELSE CASE plat = "google" ->
                <<"#identifierId", "input[type=\"email\"]",
                  "input[name=\"identifier\"]">>
           [] plat = "linkedin" ->
                <<"#username", "input[name=\"session_key\"]",
                  "input[autocomplete=\"username\"]">>
           [] plat = "reddit" ->
                <<"#loginUsername", "input[name=\"username\"]",
                  "input[placeholder*=\"Username\" i]">>
           [] plat = "github" -> <<"#login_field", "input[name=\"login\"]">>
           [] OTHER ->
                <<"input[type=\"email\"]", "input[name=\"email\"]",
                  "input[autocomplete=\"email\"]">>

\* login.rs:522-546
password_selectors(cred, config, plat) ==
    IF cred.password_selector # NoneOpt THEN <<cred.password_selector[1]>>
    ELSE IF config.password_selectors # << >> THEN config.password_selectors
    ELSE CASE plat = "google" ->
                <<"input[type=\"password\"]", "input[name=\"Passwd\"]">>
           [] plat = "linkedin" ->
                <<"#password", "input[name=\"session_password\"]">>
           [] plat = "reddit" ->
                <<"#loginPassword", "input[name=\"password\"]",
                  "input[placeholder*=\"Password\" i]">>
           [] OTHER ->
                <<"input[type=\"password\"]", "input[name=\"password\"]">>

\* login.rs:654-664
submit_selectors(cred, config) ==
    IF cred.submit_selector # NoneOpt THEN <<cred.submit_selector[1]>>
    ELSE IF config.submit_selectors # << >> THEN config.submit_selectors
    ELSE <<"button[type=\"submit\"]", "input[type=\"submit\"]",
           "button[id*=\"submit\" i]">>

\* ResolveLoginUrl looking at the profile before the override
ResolveLoginUrl_ProfileFirst(cred, plat, target_url) ==
    IF get_platform_config(plat).login_url # EmptyUrl
    THEN get_platform_config(plat).login_url
    ELSE IF cred.login_url # NoneOpt THEN cred.login_url[1]
    ELSE get_login_url(plat, target_url)

\* login.rs:469-477
ResolveLoginUrl(cred, plat, target_url) ==
    IF cred.login_url # NoneOpt THEN cred.login_url[1]
    ELSE IF get_platform_config(plat).login_url # EmptyUrl
         THEN get_platform_config(plat).login_url
         ELSE get_login_url(plat, target_url)

\* auto_login returns r to scrape
LoginReturn(r) ==
    /\ alRet' = r
    /\ pc' = "al_return"

\* login.rs:446-461  platform detection and catalog lookup
AL_Start ==
    /\ pc = "al_start"
    /\ platform' = unwrap_or(credentials.platform, DetectPlatform(req.url))
    /\ loginUrl' = ResolveLoginUrl(credentials, platform', req.url)
    /\ pc' = IF credentials.cookies # NoneOpt THEN "al_cookies" ELSE "al_nav"
    /\ UNCHANGED <<call, sessions, req, browser, handlerTask, evasion, curUrl, steps, cnt,
                   lastHeight, post, probe, alRet, meta, result, response>>

\* AL_SetCookies giving up at the first cookie that cannot be set
AL_SetCookies_FailFast ==
    /\ pc = "al_cookies"
    /\ \E ok \in BOOLEAN :
        IF ok
        THEN /\ steps' = steps \cup {"set_cookies"}
             /\ cnt' = cnt + 1
             /\ pc' = IF cnt + 1 < credentials.cookies[1]
                      THEN "al_cookies" ELSE "al_nav"
             /\ UNCHANGED alRet
        ELSE /\ steps' = steps \cup {"set_cookies", "cookie_failed"}
             /\ cnt' = cnt + 1
             /\ LoginReturn(LoginErr("cookie"))
    /\ UNCHANGED <<call, sessions, req, browser, handlerTask, evasion, curUrl,
                   platform, loginUrl, lastHeight, post, probe, meta,
                   result, response>>

\* login.rs:463-466 and 271-294  set_cookies, one cookie of its loop: a
\* cookie that cannot be set is only logged, the loop goes on and the
\* result is Ok
AL_SetCookies ==
    /\ pc = "al_cookies"
    /\ \E ok \in BOOLEAN :
        steps' = steps \cup
            (IF ok THEN {"set_cookies"} ELSE {"set_cookies", "cookie_failed"})
    /\ cnt' = cnt + 1
    /\ pc' = IF cnt + 1 < credentials.cookies[1] THEN "al_cookies" ELSE "al_nav"
    /\ UNCHANGED <<call, sessions, req, browser, handlerTask, evasion, curUrl,
                   platform, loginUrl, lastHeight, post, probe, alRet, meta,
                   result, response>>

\* login.rs:479  stealth_navigate(page, &login_url).await?  It follows
\* set_cookies directly, whatever the cookies did; the page is then where
\* the site sends it
AL_Navigate ==
    /\ pc = "al_nav"
    /\ \E ok \in BOOLEAN :
        IF ok
        THEN /\ curUrl' \in Landing(loginUrl)
             /\ steps' = steps \cup {"nav_login"}
             /\ cnt' = 0
             /\ pc' = "al_banners"
             /\ UNCHANGED alRet
        ELSE /\ LoginReturn(LoginErr("goto"))
             /\ steps' = steps \cup {"nav_login_failed"}
             /\ cnt' = 0
             /\ UNCHANGED curUrl
    /\ UNCHANGED <<call, sessions, req, browser, handlerTask, evasion, platform, loginUrl,
                   lastHeight, post, probe, meta, result, response>>

\* banner_goes_on stopping at every attempt that clicked nothing
banner_goes_on_StopAtMiss(clicked, attempt) ==
    clicked /\ attempt + 1 < BannerAttempts

\* login.rs:345 and 394-400  whether another attempt follows attempt
\* number `attempt` (from 0): after a click, and after a first attempt
\* that clicked nothing, while attempts are left
banner_goes_on(clicked, attempt) ==
    (clicked \/ attempt = 0) /\ attempt + 1 < BannerAttempts

\* login.rs:342-403  dismiss_cookie_banners: one round of its loop
AL_Banner ==
    /\ pc = "al_banners"
    /\ \E clicked \in BOOLEAN :
        LET attempt == cnt
            goes_on == banner_goes_on(clicked, attempt)
        IN /\ steps' = steps \cup {"dismiss_banner"}
           /\ IF goes_on
              THEN cnt' = cnt + 1 /\ pc' = "al_banners"
              ELSE cnt' = 0 /\ pc' = "al_email"
    /\ UNCHANGED <<call, sessions, req, browser, handlerTask, evasion, curUrl, platform,
                   loginUrl, lastHeight, post, probe, alRet, meta, result,
                   response>>

\* EnterField going on to the next step when the typing returned false
EnterField_IgnoresFalse(selectors, step, next, notFound, notTyped, label) ==
    \E visible \in Visibilities(selectors), typed \in EvalBool :
        LET found == wait_for_any_element(selectors, visible) IN
        IF found = NoneOpt
        THEN LoginReturn(LoginErr(notFound)) /\ steps' = steps \cup {label}
        ELSE IF typed = "err"
        THEN LoginReturn(LoginErr("evaluate")) /\ UNCHANGED steps
        ELSE /\ steps' = IF typed = "true" THEN steps \cup {step} ELSE steps
             /\ pc' = next
             /\ UNCHANGED alRet

\* EnterField going on to the next step when no selector became visible
EnterField_GoesOn(selectors, step, next, notFound, notTyped, label) ==
    \E visible \in Visibilities(selectors), typed \in EvalBool :
        LET found == wait_for_any_element(selectors, visible) IN
        IF found = NoneOpt
        THEN /\ steps' = steps \cup {label}
             /\ pc' = next
             /\ UNCHANGED alRet
        ELSE IF typed = "err"
        THEN LoginReturn(LoginErr("evaluate")) /\ UNCHANGED steps
        ELSE IF typed = "false"
        THEN LoginReturn(LoginErr(notTyped)) /\ UNCHANGED steps
        ELSE /\ steps' = steps \cup {step}
             /\ pc' = next
             /\ UNCHANGED alRet

\* login.rs:552-563 and 638-649  wait for a field, then type into it; label
\* is the page state logged when no selector became visible
EnterField(selectors, step, next, notFound, notTyped, label) ==
    \E visible \in Visibilities(selectors), typed \in EvalBool :
        LET found == wait_for_any_element(selectors, visible) IN
        IF found = NoneOpt
        THEN LoginReturn(LoginErr(notFound)) /\ steps' = steps \cup {label}
        ELSE IF typed = "err"
        THEN LoginReturn(LoginErr("evaluate")) /\ UNCHANGED steps
        ELSE IF typed = "false"
        THEN LoginReturn(LoginErr(notTyped)) /\ UNCHANGED steps
        ELSE /\ steps' = steps \cup {step}
             /\ pc' = next
             /\ UNCHANGED alRet

\* login.rs:548-563
AL_Email ==
    /\ pc = "al_email"
    /\ EnterField(email_selectors(credentials, get_platform_config(platform),
                                  platform),
                  "type_email", "al_multistep",
                  "Email field not found", "Failed to enter email",
                  "email_not_found")
    /\ UNCHANGED <<call, sessions, req, browser, handlerTask, evasion, curUrl, platform,
                   loginUrl, cnt, lastHeight, post, probe, meta, result,
                   response>>

\* AL_MultiStep ending the login when the advance found nothing to click
AL_MultiStep_FatalAdvance ==
    /\ pc = "al_multistep"
    /\ IF platform \in MultiStepPlatforms
       THEN LET sels == password_selectors(credentials,
                            get_platform_config(platform), platform) IN
            \E visible \in Visibilities(sels), proceeded \in BOOLEAN :
              IF wait_for_any_element(sels, visible) # NoneOpt
              THEN /\ steps' = steps \cup {"password_early"}
                   /\ pc' = "al_password"
                   /\ UNCHANGED alRet
              ELSE IF proceeded
              THEN /\ steps' = steps \cup {"advance"}
                   /\ pc' = "al_password"
                   /\ UNCHANGED alRet
              ELSE /\ steps' = steps \cup {"advance", "advance_failed"}
                   /\ LoginReturn(LoginErr("advance"))
       ELSE /\ pc' = "al_password"
            /\ UNCHANGED <<steps, alRet>>
    /\ UNCHANGED <<call, sessions, req, browser, handlerTask, evasion, curUrl,
                   platform, loginUrl, cnt, lastHeight, post, probe, meta,
                   result, response>>

\* login.rs:565-632  the multi-step check: on an allow-listed platform the
\* password field is probed for 2 s; when it is not visible the advance
\* script runs, and whatever it returns (or when its evaluation fails) the
\* login goes on to the password field
AL_MultiStep ==
    /\ pc = "al_multistep"
    /\ IF platform \in MultiStepPlatforms
       THEN LET sels == password_selectors(credentials,
                            get_platform_config(platform), platform) IN
            \E visible \in Visibilities(sels), proceeded \in BOOLEAN :
              steps' = steps \cup
                  (IF wait_for_any_element(sels, visible) # NoneOpt
                   THEN {"password_early"}
                   ELSE IF proceeded THEN {"advance"}
                   ELSE {"advance", "advance_failed"})
       ELSE UNCHANGED steps
    /\ pc' = "al_password"
    /\ UNCHANGED <<call, sessions, req, browser, handlerTask, evasion, curUrl,
                   platform, loginUrl, cnt, lastHeight, post, probe, alRet,
                   meta, result, response>>

\* login.rs:634-649
AL_Password ==
    /\ pc = "al_password"
    /\ EnterField(password_selectors(credentials,
                                     get_platform_config(platform), platform),
                  "type_password", "al_submit",
                  "Password field not found", "Failed to enter password",
                  "password_not_found")
    /\ UNCHANGED <<call, sessions, req, browser, handlerTask, evasion, curUrl, platform,
                   loginUrl, cnt, lastHeight, post, probe, meta, result,
                   response>>

\* login.rs:651-698  click the submit button; when none was clicked, run the
\* Enter/form.submit script, whose result (true, false when the page has no
\* password field and no form, or a failed evaluation) is dropped, and set
\* submitted = true
AL_Submit ==
    /\ pc = "al_submit"
    /\ LET sels == submit_selectors(credentials, get_platform_config(platform)) IN
       \E visible \in Visibilities(sels), clicked \in EvalBool,
          fallback \in EvalBool :
        LET found == wait_for_any_element(sels, visible) IN
        IF found # NoneOpt /\ clicked = "err"
        THEN LoginReturn(LoginErr("evaluate")) /\ UNCHANGED steps
        ELSE /\ steps' = steps \cup
                  {IF found # NoneOpt /\ clicked = "true" THEN "submit_click"
                   ELSE IF fallback = "true" THEN "submit_enter"
                   ELSE "submit_none"}
             /\ pc' = "al_wait"
             /\ UNCHANGED alRet
    /\ UNCHANGED <<call, sessions, req, browser, handlerTask, evasion, curUrl, platform,
                   loginUrl, cnt, lastHeight, post, probe, meta, result,
                   response>>

\* login.rs:700-721  the post-submit wait; the page it ends on shows any
\* combination of captcha, two-factor and credential-error indicators
AL_PostSubmitWait ==
    /\ pc = "al_wait"
    /\ \E c \in BOOLEAN, t \in BOOLEAN, e \in BOOLEAN :
        post' = [shown |-> TRUE, captcha |-> c, tfa |-> t, err |-> e]
    /\ curUrl' \in PostSubmitUrls(curUrl, req.url)
    /\ cnt' = 0
    /\ pc' = "al_prompts"
    /\ UNCHANGED <<call, sessions, req, browser, handlerTask, evasion, steps, platform,
                   loginUrl, lastHeight, probe, alRet, meta, result,
                   response>>

\* login.rs:723-750  one round of the post-login prompt loop
AL_Prompt ==
    /\ pc = "al_prompts"
    /\ \E dismissed \in BOOLEAN :
        IF dismissed /\ cnt + 1 < PromptAttempts
        THEN cnt' = cnt + 1 /\ pc' = "al_prompts"
        ELSE cnt' = 0 /\ pc' = "al_classify"
    /\ UNCHANGED <<call, sessions, req, browser, handlerTask, evasion, curUrl, steps,
                   platform, loginUrl, lastHeight, post, probe, alRet, meta,
                   result, response>>


\* login.rs:859-861  the URL no longer shows a login path
LoginPathTokens ==
    {"/login", "/login/", "/signin", "/i/flow/login", "/accounts/login/"}
urlChanged(href) == \A i \in 1..Len(href) : href[i] \notin LoginPathTokens

\* login.rs:837-866  the heuristic success probe, as its script computes it
HeuristicSuccess(visibleLogins, hasUserIndicators, href) ==
    IF visibleLogins THEN FALSE ELSE hasUserIndicators \/ urlChanged(href)

\* the page facts the success probes read
ProbeFacts ==
    [indicator : BOOLEAN, visibleLogins : BOOLEAN, hasUserIndicators : BOOLEAN]
NoFacts ==
    [indicator |-> FALSE, visibleLogins |-> FALSE, hasUserIndicators |-> FALSE]

\* which of the four classification evaluations succeed
ProbeRuns == [captcha : BOOLEAN, tfa : BOOLEAN, err : BOOLEAN, heur : BOOLEAN]

\* login.rs:753-762  requires_captcha: a failed evaluation counts as false
requires_captcha(page, runs) == runs.captcha /\ page.captcha
\* login.rs:769-784  requires_2fa
requires_2fa(page, runs) == runs.tfa /\ page.tfa
\* login.rs:791-814  has_error
has_error(page, runs) == runs.err /\ page.err

\* login.rs:821-872  login_success
login_success(config, facts, runs, href) ==
    \/ config.has_checks /\ facts.indicator
    \/ runs.heur /\ HeuristicSuccess(facts.visibleLogins,
                                     facts.hasUserIndicators, href)

\* Classify with the success probes consulted before the error probe
Classify_SuccessBeforeError(page, config, facts, runs, href) ==
    IF requires_captcha(page, runs) THEN "captcha"
    ELSE IF requires_2fa(page, runs) THEN "two_factor"
    ELSE IF login_success(config, facts, runs, href) THEN "success"
    ELSE IF has_error(page, runs) THEN "credential_error"
    ELSE "inconclusive"

\* login.rs:753-872  the order in which the probes decide the outcome
Classify(page, config, facts, runs, href) ==
    IF requires_captcha(page, runs) THEN "captcha"
    ELSE IF requires_2fa(page, runs) THEN "two_factor"
    ELSE IF has_error(page, runs) THEN "credential_error"
    ELSE IF login_success(config, facts, runs, href) THEN "success"
    ELSE "inconclusive"

\* OutcomeReturn with the 2FA flag set on a successful login
OutcomeReturn_SuccessWithTfa(outcome, plat) ==
    CASE outcome = "captcha" -> LoginOk(FALSE, plat, TRUE)
      [] outcome = "two_factor" -> LoginOk(FALSE, plat, TRUE)
      [] outcome = "credential_error" -> LoginOk(FALSE, plat, FALSE)
      [] outcome = "success" -> LoginOk(TRUE, plat, TRUE)
      [] OTHER -> LoginOk(FALSE, plat, FALSE)

\* login.rs:766, 788, 818, 896  the tuple auto_login returns per outcome
OutcomeReturn(outcome, plat) ==
    CASE outcome = "captcha" -> LoginOk(FALSE, plat, TRUE)
      [] outcome = "two_factor" -> LoginOk(FALSE, plat, TRUE)
      [] outcome = "credential_error" -> LoginOk(FALSE, plat, FALSE)
      [] outcome = "success" -> LoginOk(TRUE, plat, FALSE)
      [] OTHER -> LoginOk(FALSE, plat, FALSE)

\* login.rs:752-872  outcome classification
AL_Classify ==
    /\ pc = "al_classify"
    /\ \E facts \in ProbeFacts, runs \in ProbeRuns :
        LET outcome == Classify(post, get_platform_config(platform), facts,
                                runs, curUrl)
        IN /\ probe' = [ran |-> TRUE, outcome |-> outcome,
                        facts |-> IF outcome \in {"success", "inconclusive"}
                                  THEN facts ELSE NoFacts]
           /\ IF outcome = "success"
              THEN pc' = "al_final_nav" /\ UNCHANGED alRet
              ELSE LoginReturn(OutcomeReturn(outcome, platform))
    /\ steps' = steps \cup {"classify"}
    /\ UNCHANGED <<call, sessions, req, browser, handlerTask, evasion, curUrl, platform,
                   loginUrl, cnt, lastHeight, post, meta, result, response>>

\* NeedsTargetNav without the comparison of the target with the login URL
NeedsTargetNav_IgnoresLoginUrl(current_url, target_url, login_url) ==
    /\ current_url # EmptyUrl
    /\ ~Contains(target_url, current_url)

\* login.rs:879-880  the test that decides the navigation to the target
NeedsTargetNav(current_url, target_url, login_url) ==
    /\ current_url # EmptyUrl
    /\ ~Contains(target_url, current_url)
    /\ target_url # login_url

\* login.rs:874-896  after a successful login: go to the target if needed;
\* page.url() that fails or has no URL gives the empty string (login.rs:879)
AL_FinalNav ==
    /\ pc = "al_final_nav"
    /\ \E urlKnown \in BOOLEAN, ok \in BOOLEAN :
        LET current_url == IF urlKnown THEN curUrl ELSE EmptyUrl
            read == IF urlKnown THEN {} ELSE {"al_url_unknown"}
        IN
        IF NeedsTargetNav(current_url, req.url, loginUrl)
        THEN IF ok
             THEN /\ steps' = steps \cup {"al_nav_target"}
                  /\ curUrl' \in Landing(req.url)
             ELSE /\ steps' = steps \cup {"al_nav_target_failed"}
                  /\ UNCHANGED curUrl
        ELSE /\ steps' = steps \cup read
             /\ UNCHANGED curUrl
    /\ LoginReturn(OutcomeReturn("success", platform))
    /\ UNCHANGED <<call, sessions, req, browser, handlerTask, evasion, platform, loginUrl,
                   cnt, lastHeight, post, probe, meta, result, response>>

\* ----------------------------------------------------------- Scraper::scrape
\* scraper.rs:155-174  the tuple (login_attempted, login_success,
\* platform_detected, requires_2fa)
Meta(attempted, success, plat, tfa) ==
    [set |-> TRUE, login_attempted |-> attempted, login_success |-> success,
     platform_detected |-> plat, requires_2fa |-> tfa]

\* scraper.rs:311-320 and 323-329  scrape has returned r: do_scrape returns
\* it, the Scraper goes out of scope and its Drop spawns the close task
Return(r) ==
    /\ result' = r
    /\ browser' = "closing"
    /\ pc' = "respond"
    /\ cnt' = 0
    /\ lastHeight' = -1

\* NoLoginMeta with login_success filled in as Some(false)
NoLoginMeta_SomeFalse == Meta(FALSE, Some(FALSE), NoneOpt, NoneOpt)

\* scraper.rs:173  the login metadata of a request without credentials
NoLoginMeta == Meta(FALSE, NoneOpt, NoneOpt, NoneOpt)

\* scraper.rs:155-156 and 172-174  the start of scrape
ScrapeLogin ==
    /\ pc = "scrape_login"
    /\ IF req.login # NoneOpt
       THEN pc' = "al_start" /\ UNCHANGED meta
       ELSE /\ meta' = NoLoginMeta
            /\ pc' = "scrape_nav"
    /\ UNCHANGED <<call, sessions, req, browser, handlerTask, evasion, curUrl, steps,
                   platform, loginUrl, cnt, lastHeight, post, probe, alRet,
                   result, response>>

\* LoginMatch without the early return at scraper.rs:159-161
LoginMatch_NeverStops(ret) ==
    IF ret.kind = "ok"
    THEN [stop |-> NoneOpt,
          meta |-> Meta(TRUE, Some(ret.success), ret.platform, ret.tfa)]
    ELSE [stop |-> NoneOpt,
          meta |-> Meta(TRUE, Some(FALSE), NoneOpt, NoneOpt)]

\* scraper.rs:157-171  the match on auto_login's result: the error scrape
\* returns at once, or the login metadata it goes on with
LoginMatch(ret) ==
    IF ret.kind = "ok"
    THEN IF unwrap_or(ret.tfa, FALSE)
         THEN [stop |-> Some("TwoFactorAuthRequired"), meta |-> NoMeta]
         ELSE [stop |-> NoneOpt,
               meta |-> Meta(TRUE, Some(ret.success), ret.platform, ret.tfa)]
    ELSE [stop |-> NoneOpt,
          meta |-> Meta(TRUE, Some(FALSE), NoneOpt, NoneOpt)]

\* scraper.rs:157-171  auto_login has returned to scrape
ScrapeLoginResult ==
    /\ pc = "al_return"
    /\ probe' = IF probe.ran THEN [probe EXCEPT !.facts = NoFacts] ELSE probe
    /\ LET m == LoginMatch(alRet) IN
       IF m.stop # NoneOpt
       THEN Return(ScrapeErr(m.stop[1])) /\ UNCHANGED meta
       ELSE /\ meta' = m.meta
            /\ pc' = "scrape_nav"
            /\ UNCHANGED <<browser, result, cnt, lastHeight>>
    /\ UNCHANGED <<call, sessions, req, handlerTask, evasion, curUrl, steps, platform,
                   loginUrl, post, alRet, response>>

\* scraper.rs:176-200  navigate to the target unless the page is on it
ScrapeNav ==
    /\ pc = "scrape_nav"
    /\ \E hrefKnown \in BOOLEAN, ok \in BOOLEAN :
        LET current_url == IF hrefKnown THEN curUrl ELSE EmptyUrl IN
        IF ~StartsWith(current_url, req.url)
        THEN IF ok
             THEN /\ steps' = steps \cup {"scrape_nav_target"}
                  /\ curUrl' \in Landing(req.url)
                  /\ pc' = "body_wait"
                  /\ UNCHANGED <<browser, result, cnt, lastHeight>>
             ELSE /\ steps' = steps \cup {"nav_target_failed"}
                  /\ Return(ScrapeErr("Navigation"))
                  /\ UNCHANGED curUrl
        ELSE /\ pc' = "body_wait"
             /\ UNCHANGED <<steps, curUrl, browser, result, cnt, lastHeight>>
    /\ UNCHANGED <<call, sessions, req, handlerTask, evasion, platform, loginUrl, post,
                   probe, alRet, meta, response>>

\* BodyWait allowing one probe more than BodyProbes
BodyWait_OneMore ==
    /\ pc = "body_wait"
    /\ steps' = steps \cup {"body_wait"}
    /\ \E found \in BOOLEAN :
        IF found
        THEN /\ pc' = "scroll"
             /\ cnt' = 0
             /\ UNCHANGED <<browser, result, lastHeight>>
        ELSE IF cnt + 1 < BodyProbes + 1
        THEN /\ cnt' = cnt + 1
             /\ UNCHANGED <<pc, browser, result, lastHeight>>
        ELSE Return(ScrapeErr("ContentExtraction"))
    /\ UNCHANGED <<call, sessions, req, handlerTask, evasion, curUrl, platform, loginUrl,
                   post, probe, alRet, meta, response>>

\* scraper.rs:207-213  one probe for the body element
BodyWait ==
    /\ pc = "body_wait"
    /\ steps' = steps \cup {"body_wait"}
    /\ \E found \in BOOLEAN :
        IF found
        THEN /\ pc' = "scroll"
             /\ cnt' = 0
             /\ UNCHANGED <<browser, result, lastHeight>>
        ELSE IF cnt + 1 < BodyProbes
        THEN /\ cnt' = cnt + 1
             /\ UNCHANGED <<pc, browser, result, lastHeight>>
        ELSE Return(ScrapeErr("ContentExtraction"))
    /\ UNCHANGED <<call, sessions, req, handlerTask, evasion, curUrl, platform, loginUrl,
                   post, probe, alRet, meta, response>>

\* scraper.rs:204-217  the 10 s timeout around the probes fires
BodyTimeout ==
    /\ pc = "body_wait"
    /\ "body_wait" \in steps
    /\ Return(ScrapeErr("ContentExtraction"))
    /\ UNCHANGED <<call, sessions, req, handlerTask, evasion, curUrl, steps, platform,
                   loginUrl, post, probe, alRet, meta, response>>

\* scraper.rs:125-146  one round of scroll_for_lazy_content; on leaving the
\* loop the page is scrolled back to the top
Scroll ==
    /\ pc = "scroll"
    /\ \E r \in Heights, evaluated \in BOOLEAN :
        IF ~evaluated
        THEN /\ Return(ScrapeErr("EvaluationFailed"))
             /\ steps' = steps \cup {"scroll"}
        ELSE /\ UNCHANGED <<browser, result>>
             /\ IF r = lastHeight \/ cnt + 1 = ScrollRounds
                THEN /\ steps' = steps \cup {"scroll", "scroll_top"}
                     /\ pc' = "extract"
                     /\ cnt' = 0
                     /\ lastHeight' = -1
                ELSE /\ steps' = steps \cup {"scroll"}
                     /\ lastHeight' = r
                     /\ cnt' = cnt + 1
                     /\ UNCHANGED pc
    /\ UNCHANGED <<call, sessions, req, handlerTask, evasion, curUrl, platform, loginUrl,
                   post, probe, alRet, meta, response>>

\* scraper.rs:297-307  the Ok(ScrapedData) of scrape
ScrapedData(m) ==
    [kind |-> "ok", login_attempted |-> m.login_attempted,
     login_success |-> m.login_success,
     platform_detected |-> m.platform_detected,
     requires_2fa |-> m.requires_2fa]

\* scraper.rs:223-307  title, description, text, images and links are read
\* (a failed read leaves its field empty) and the result is returned
Extract ==
    /\ pc = "extract"
    /\ steps' = steps \cup {"extract"}
    /\ Return(ScrapedData(meta))
    /\ UNCHANGED <<call, sessions, req, handlerTask, evasion, curUrl, platform, loginUrl,
                   post, probe, alRet, meta, response>>

\* ------------------------------------------------------------ the handler
\* handlers.rs:13-42  the ScrapeResponse built from do_scrape's result
ScrapeResponse(r) ==
    IF r.kind = "ok"
    THEN [kind |-> "sent", status |-> 200, success |-> TRUE,
          error |-> NoneOpt,
          login_attempted |-> r.login_attempted,
          login_success |-> r.login_success,
          platform_detected |-> r.platform_detected,
          requires_2fa |-> r.requires_2fa]
    ELSE [kind |-> "sent", status |-> 500, success |-> FALSE,
          error |-> Some(r.error),
          login_attempted |-> FALSE,
          login_success |-> NoneOpt,
          platform_detected |-> NoneOpt,
          requires_2fa |-> NoneOpt]

\* handlers.rs:9-43  the handler answers the request
Respond ==
    /\ pc = "respond"
    /\ response' = ScrapeResponse(result)
    /\ pc' = "done"
    /\ UNCHANGED <<call, sessions, req, browser, handlerTask, evasion, curUrl, steps,
                   platform, loginUrl, cnt, lastHeight, post, probe, alRet,
                   meta, result>>

\* scraper.rs:314-317  the task spawned by Drop calls close() once, then
\* wait(), and drops both results (let _ =): a close() that fails is not
\* tried again
CloseBrowser ==
    /\ browser = "closing"
    /\ \E closed \in BOOLEAN :
        browser' = IF closed THEN "closed" ELSE "close_failed"
    /\ UNCHANGED <<call, sessions, req, pc, handlerTask, evasion, curUrl, steps, platform,
                   loginUrl, cnt, lastHeight, post, probe, alRet, meta,
                   result, response>>

\* scraper.rs:46-50  the handler task loops on handler.next() and ends on
\* the first None of the stream, whatever the browser is doing: src/ orders
\* it neither with the request nor with the close task
HandlerEnd ==
    /\ handlerTask = "running"
    /\ handlerTask' = "stopped"
    /\ UNCHANGED <<call, sessions, req, pc, browser, evasion, curUrl, steps, platform,
                   loginUrl, cnt, lastHeight, post, probe, alRet, meta,
                   result, response>>

\* the steps of the request itself: handlers::scrape, do_scrape, scrape and
\* auto_login
RequestNext ==
    \/ Launch \/ NewPage \/ SetupEvasions
    \/ ScrapeLogin \/ ScrapeLoginResult
    \/ AL_Start \/ AL_SetCookies \/ AL_Navigate \/ AL_Banner \/ AL_Email
    \/ AL_MultiStep \/ AL_Password \/ AL_Submit \/ AL_PostSubmitWait
    \/ AL_Prompt \/ AL_Classify \/ AL_FinalNav
    \/ ScrapeNav \/ BodyWait \/ BodyTimeout \/ Scroll \/ Extract
    \/ Respond

Next == RequestNext \/ CloseBrowser \/ HandlerEnd

Spec == Init /\ [][Next]_vars

\* every driver call of the request returns and every awaited step of the
\* request is resumed: a request that can take a step eventually takes one.
\* Nothing is assumed about the detached close task and the handler task
FairSpec == Spec /\ WF_vars(RequestNext)


\* ------------------------------------------- function calls, step by step
\* CallSpec follows single calls of wait_for_any_element,
\* get_platform_config and the extraction scripts on their own, with the
\* strings of the selectors spelled out character by character.

\* str::replace for a one-character pattern: a string is the sequence of
\* its characters
RECURSIVE replace(_, _, _)
replace(s, from, to) ==
    IF s = << >> THEN << >>
    ELSE (IF Head(s) = from THEN to ELSE <<Head(s)>>)
         \o replace(Tail(s), from, to)

\* login.rs:122  selector.replace("'", "\\'").replace("\\", "\\\\")
escape_selector(selector) ==
    replace(replace(selector, "'", <<"\\", "'">>), "\\", <<"\\", "\\">>)

\* login.rs:104  the script text from the character after the opening quote
\* of querySelector('{}') to the closing parenthesis
ProbeScript(selector) == escape_selector(selector) \o <<"'", ")">>

\* how JavaScript reads a single-quoted string literal whose characters
\* start at text[i]: a backslash takes the next character literally (\n is
\* the line feed), a bare quote closes the literal (closed = 0: no closing
\* quote)
RECURSIVE JsString(_, _, _)
JsString(text, i, acc) ==
    IF i > Len(text) THEN [closed |-> 0, value |-> acc]
    ELSE IF text[i] = "'" THEN [closed |-> i, value |-> acc]
    ELSE IF text[i] = "\\"
    THEN IF i + 1 > Len(text) THEN [closed |-> 0, value |-> acc]
         ELSE JsString(text, i + 2,
                       Append(acc, IF text[i + 1] = "n" THEN "\n"
                                   ELSE text[i + 1]))
    ELSE JsString(text, i + 1, Append(acc, text[i]))

\* login.rs:100-123  the probe script parses when the literal is closed by
\* the quote of the template, right before the parenthesis; closed earlier,
\* the rest of the selector is left outside the literal and the script is
\* rejected with a SyntaxError
ProbeScriptParses(selector) ==
    JsString(ProbeScript(selector), 1, << >>).closed
        = Len(ProbeScript(selector)) - 1

\* the selector document.querySelector receives
QueriedSelector(selector) == JsString(ProbeScript(selector), 1, << >>).value

\* login.rs:100-123  is_visible of one probe: false when the evaluation
\* fails (.ok() ... .unwrap_or(false)), else what the script computes
probe_is_visible(selector, page, evaluated) ==
    /\ evaluated
    /\ ProbeScriptParses(selector)
    /\ QueriedSelector(selector) \in page

\* login.rs:93  check_interval_ms
CheckIntervalMs == 200

\* the longest selector list tried
MaxSelectors == 2

\* the selectors tried: an id, an attribute selector with a quoted value
\* (the form of the catalog's selectors), a class with an escaped colon
SelectorPool ==
    { <<"#", "e">>,
      <<"[", "e", "=", "'", "m", "'", "]">>,
      <<".", "e", "\\", ":", "m">> }

RECURSIVE ListsUpTo(_, _)
ListsUpTo(pool, n) ==
    IF n = 0 THEN {<< >>}
    ELSE ListsUpTo(pool, n - 1) \cup
         {Append(l, x) : l \in {m \in ListsUpTo(pool, n - 1) : Len(m) = n - 1},
                         x \in pool}

\* the timeout_ms values tried
Timeouts == {0, 200, 500}

\* the time one evaluation takes, in ms
EvalMs == {0, 100}

Running == [kind |-> "running"]
Returns(v) == [kind |-> "returned", value |-> v]

\* login.rs:88-95  a call of wait_for_any_element; page is the set of
\* selectors that match a visible element now, clock the time since the call
WaitCalls ==
    { [fn |-> "wait_for_any_element", selectors |-> l, timeout_ms |-> t,
       elapsed |-> 0, next |-> 1, page |-> pg, dropped |-> FALSE,
       clock |-> 0, ret |-> Running] :
        l \in ListsUpTo(SelectorPool, MaxSelectors), t \in Timeouts,
        pg \in SUBSET SelectorPool }

\* login.rs:99-129  one probe of the for loop
WaitProbe ==
    /\ call.fn = "wait_for_any_element"
    /\ call.ret = Running
    /\ call.elapsed < call.timeout_ms
    /\ call.next <= Len(call.selectors)
    /\ \E evaluated \in BOOLEAN, cost \in EvalMs :
        LET selector == call.selectors[call.next] IN
        IF probe_is_visible(selector, call.page, evaluated)
        THEN call' = [call EXCEPT !.ret = Returns(Some(selector)),
                                  !.clock = @ + cost]
        ELSE call' = [call EXCEPT !.next = @ + 1,
                                  !.clock = @ + cost,
                                  !.dropped = @ \/ ~evaluated]
    /\ UNCHANGED <<sessions, requestVars>>

\* login.rs:131-132  the sleep that ends a tick; the page may change
WaitSleep ==
    /\ call.fn = "wait_for_any_element"
    /\ call.ret = Running
    /\ call.elapsed < call.timeout_ms
    /\ call.next > Len(call.selectors)
    /\ \E pg \in SUBSET SelectorPool :
        call' = [call EXCEPT !.elapsed = @ + CheckIntervalMs,
                             !.clock = @ + CheckIntervalMs,
                             !.next = 1,
                             !.dropped = FALSE,
                             !.page = pg]
    /\ UNCHANGED <<sessions, requestVars>>

\* login.rs:98 and 135-136  the while condition fails: Ok(None)
WaitGiveUp ==
    /\ call.fn = "wait_for_any_element"
    /\ call.ret = Running
    /\ call.elapsed >= call.timeout_ms
    /\ call' = [call EXCEPT !.ret = Returns(NoneOpt)]
    /\ UNCHANGED <<sessions, requestVars>>

\* the request the single calls are made for
IdleRequest ==
    /\ req = [url |-> <<"https://", "example.com", "/profile">>,
              login |-> NoneOpt]
    /\ Fresh
    /\ sessions = NoSessions

\* config.rs:11-139  the ids that have an arm in the catalog, with the
\* spellings of each that are tried
CatalogSpellings ==
    { {"linkedin", "LinkedIn", "LINKEDIN"},
      {"facebook", "Facebook", "FACEBOOK"},
      {"twitter", "Twitter", "TWITTER"},
      {"x", "X"},
      {"github", "GitHub", "GITHUB"},
      {"instagram", "Instagram", "INSTAGRAM"},
      {"reddit", "Reddit", "REDDIT"} }

\* the spellings of ids without an arm
OtherSpellings ==
    { {"google", "Google", "GOOGLE"}, {"microsoft", "Microsoft"},
      {"generic", "Generic"}, {"myshop", "MyShop"}, {""} }

PlatformIds == UNION (CatalogSpellings \cup OtherSpellings)

\* config.rs:10  a call of get_platform_config
ConfigCalls ==
    { [fn |-> "get_platform_config", platform |-> id, ret |-> Running] :
        id \in PlatformIds }

\* config.rs:10-164
ConfigLookup ==
    /\ call.fn = "get_platform_config"
    /\ call.ret = Running
    /\ call' = [call EXCEPT !.ret = Returns(get_platform_config(call.platform))]
    /\ UNCHANGED <<sessions, requestVars>>

\* scraper.rs:247  substring(0, 100000) of the body text
TextCap == 100000
\* scraper.rs:269  slice(0, 20) of the images
ImageCap == 20
\* scraper.rs:283  substring(0, 200) of a link text
LinkTextCap == 200
\* scraper.rs:284  slice(0, 50) of the links
LinkCap == 50

\* Array.prototype.slice(0, n)
slice(seq, n) == SubSeq(seq, 1, IF Len(seq) < n THEN Len(seq) ELSE n)

\* String.prototype.substring(0, n) on a string given by its length
substring(len, n) == IF len < n THEN len ELSE n

\* startsWith('http') on a URL given by its scheme
starts_with_http(scheme) == scheme \in {"http", "https"}

\* extract_images cutting the list before it filters it
extract_images_SliceFirst(imgs) ==
    SelectSeq(slice(imgs, ImageCap), LAMBDA img : starts_with_http(img.src))

\* scraper.rs:258-269  the images script: the resolved sources, those that
\* start with http, the first 20 of them
extract_images(imgs) ==
    slice(SelectSeq(imgs, LAMBDA img : starts_with_http(img.src)), ImageCap)

\* scraper.rs:280-284  the links script: href and the trimmed text cut to
\* 200 characters, the links whose href starts with http, the first 50
extract_links(links) ==
    slice(SelectSeq([i \in 1..Len(links) |->
                        [href |-> links[i].href,
                         text |-> substring(links[i].text - links[i].blank,
                                            LinkTextCap)]],
                    LAMBDA link : starts_with_http(link.href)),
          LinkCap)

\* scraper.rs:243-247  the text script on the whitespace-collapsed text
extract_text(len) == substring(len, TextCap)

\* n elements that repeat the pattern
Repeat(pattern, n) ==
    [i \in 1..n |-> pattern[((i - 1) % Len(pattern)) + 1]]

\* the img elements of the pages tried, by the scheme of the resolved src
\* ("" is an img without a source)
ImageLists ==
    { Repeat(pat, n) :
        pat \in { <<[src |-> "https"]>>, <<[src |-> "data"]>>,
                  <<[src |-> "http"], [src |-> "data"]>>,
                  <<[src |-> ""]>> },
        n \in {0, 21, 500} }

\* the a[href] elements of the pages tried: scheme, length of innerText,
\* and how much of it is leading and trailing blank
LinkLists ==
    { Repeat(pat, n) :
        pat \in { <<[href |-> "https", text |-> 199, blank |-> 0]>>,
                  <<[href |-> "http", text |-> 5000, blank |-> 2],
                    [href |-> "mailto", text |-> 10, blank |-> 0]>> },
        n \in {0, 51, 120} }

\* the lengths of body text tried
TextLengths == {0, 100000, 100001, 500000}

\* scraper.rs:240-290  the extraction of text, images and links from a page
ExtractCalls ==
    { [fn |-> "extract", body |-> t, imgs |-> i, anchors |-> l, at |-> "text",
       evaluated |-> {}, text |-> NoneOpt, images |-> << >>,
       links |-> << >>] :
        t \in TextLengths, i \in ImageLists, l \in LinkLists }

\* scraper.rs:240-253  text: None when the evaluation fails
ExtractText ==
    /\ call.fn = "extract"
    /\ call.at = "text"
    /\ \E ok \in BOOLEAN :
        call' = [call EXCEPT
                    !.text = IF ok THEN Some(extract_text(call.body))
                             ELSE NoneOpt,
                    !.evaluated = IF ok THEN @ \cup {"text"} ELSE @,
                    !.at = "images"]
    /\ UNCHANGED <<sessions, requestVars>>

\* scraper.rs:255-274  images: empty when the evaluation fails
ExtractImages ==
    /\ call.fn = "extract"
    /\ call.at = "images"
    /\ \E ok \in BOOLEAN :
        call' = [call EXCEPT
                    !.images = IF ok THEN extract_images(call.imgs)
                               ELSE << >>,
                    !.evaluated = IF ok THEN @ \cup {"images"} ELSE @,
                    !.at = "links"]
    /\ UNCHANGED <<sessions, requestVars>>

\* scraper.rs:276-289  links: empty when the evaluation fails
ExtractLinks ==
    /\ call.fn = "extract"
    /\ call.at = "links"
    /\ \E ok \in BOOLEAN :
        call' = [call EXCEPT
                    !.links = IF ok THEN extract_links(call.anchors) ELSE << >>,
                    !.evaluated = IF ok THEN @ \cup {"links"} ELSE @,
                    !.at = "done"]
    /\ UNCHANGED <<sessions, requestVars>>

\* the target URLs whose platform is detected
DetectUrls ==
    { <<"https://", "github.com", "/settings">>,
      <<"https://", "www.linkedin.com", "/feed">>,
      <<"https://", "mail.google.com", "/">>,
      <<"https://", "x.com", "/home">>,
      <<"https://", "login.live.com", "/">>,
      <<"https://", "www.reddit.com", "/r/github.com">>,
      <<"https://", "example.com", "/profile">>,
      <<"https://", "example.com", "/share?u=linkedin.com">>,
      <<"https://", "dropbox.com", "/home">> }

\* login.rs:447  the platform ids a request supplies
SuppliedPlatforms == {NoneOpt, Some("LinkedIn"), Some("myshop")}

\* login.rs:446-458  the platform detection at the start of auto_login
DetectCalls ==
    { [fn |-> "detect_platform", url |-> u, supplied |-> sp, ret |-> Running] :
        u \in DetectUrls, sp \in SuppliedPlatforms }

\* login.rs:447-458  credentials.platform, or else the detected platform
DetectCall ==
    /\ call.fn = "detect_platform"
    /\ call.ret = Running
    /\ call' = [call EXCEPT
                   !.ret = Returns(unwrap_or(call.supplied,
                                             DetectPlatform(call.url)))]
    /\ UNCHANGED <<sessions, requestVars>>

\* the URLs the page is at when the outcome is classified
ClassifyHrefs ==
    { <<"https://", "github.com", "/login">>,
      <<"https://", "github.com", "/settings">> }

\* login.rs:752-896  the classification of the post-submit page: what the
\* page shows, which probe evaluations succeed, what the success probes see
ClassifyCalls ==
    { [fn |-> "classify",
       page |-> [shown |-> TRUE, captcha |-> c, tfa |-> t, err |-> e],
       facts |-> f, runs |-> r, href |-> h, config |-> cfg,
       platform |-> "github", ret |-> Running] :
        c \in BOOLEAN, t \in BOOLEAN, e \in BOOLEAN, f \in ProbeFacts,
        r \in ProbeRuns, h \in ClassifyHrefs,
        cfg \in {get_platform_config("github"), GenericConfig} }

\* login.rs:752-896  the tuple auto_login returns for the page
ClassifyCall ==
    /\ call.fn = "classify"
    /\ call.ret = Running
    /\ call' = [call EXCEPT
                   !.ret = Returns(OutcomeReturn(
                               Classify(call.page, call.config, call.facts,
                                        call.runs, call.href),
                               call.platform))]
    /\ UNCHANGED <<sessions, requestVars>>

\* login.rs:488-546 and 654-664  the selector list of a field
field_selectors(field, cred, config, plat) ==
    CASE field = "email" -> email_selectors(cred, config, plat)
      [] field = "password" -> password_selectors(cred, config, plat)
      [] OTHER -> submit_selectors(cred, config)

\* the selectors that can be visible on the login pages tried
FieldPool == {"#user", "#login_field", "#password", "input[name='commit']"}

\* login.rs:488-552, 638 and 667  the search for the email, password or
\* submit field: with or without an override selector, on a page where the
\* selectors of visible hold
FieldCalls ==
    { [fn |-> "find_field", field |-> f, platform |-> pl,
       cred |-> [email_selector |-> ov, password_selector |-> ov,
                 submit_selector |-> ov],
       visible |-> v, ret |-> Running] :
        f \in {"email", "password", "submit"}, pl \in {"github", "generic"},
        ov \in {NoneOpt, Some("#user")}, v \in SUBSET FieldPool }

\* login.rs:552, 638 and 667  wait_for_any_element on the field's list
FieldCall ==
    /\ call.fn = "find_field"
    /\ call.ret = Running
    /\ call' = [call EXCEPT
                   !.ret = Returns(wait_for_any_element(
                               field_selectors(call.field, call.cred,
                                   get_platform_config(call.platform),
                                   call.platform),
                               call.visible))]
    /\ UNCHANGED <<sessions, requestVars>>

\* login.rs:342-345  a call of dismiss_cookie_banners; clicks holds, per
\* attempt made, whether it clicked something
BannerCalls ==
    { [fn |-> "dismiss_cookie_banners", clicks |-> << >>, ret |-> Running] }

\* login.rs:345-401  one attempt of the loop; a failed evaluation counts as
\* nothing clicked
BannerAttempt ==
    /\ call.fn = "dismiss_cookie_banners"
    /\ call.ret = Running
    /\ \E found \in BOOLEAN, evaluated \in BOOLEAN :
        LET clicked == evaluated /\ found
            attempt == Len(call.clicks)
        IN call' = [call EXCEPT
                       !.clicks = Append(@, clicked),
                       !.ret = IF banner_goes_on(clicked, attempt)
                               THEN Running ELSE Returns("Ok")]
    /\ UNCHANGED <<sessions, requestVars>>

\* login.rs:702  the floor of the post-submit wait, in seconds
MinWaitSecs == 8

\* wait_time without the floor
wait_time_NoFloor(override, profile_wait) == unwrap_or(override, profile_wait)

\* login.rs:702  credentials.wait_after_login_secs
\*                   .unwrap_or(config.wait_after_login).max(8)
wait_time(override, profile_wait) ==
    IF unwrap_or(override, profile_wait) < MinWaitSecs THEN MinWaitSecs
    ELSE unwrap_or(override, profile_wait)

\* model.rs:29  the wait_after_login_secs values tried
WaitOverrides == {NoneOpt, Some(0), Some(5), Some(8), Some(9), Some(30)}

\* config.rs  the wait_after_login values of the profiles
ProfileWaits == {5, 6, 7, 8}

\* login.rs:704  when, in seconds after the submit, the navigation event
\* arrives (None: never)
NavEvents == {NoneOpt, Some(0), Some(3), Some(8), Some(20)}

\* login.rs:700-718  the post-submit wait
PostWaitCalls ==
    { [fn |-> "post_submit_wait", override |-> o, profile_wait |-> w,
       nav |-> n, wait_time |-> 0, waited |-> 0, ret |-> Running] :
        o \in WaitOverrides, w \in ProfileWaits, n \in NavEvents }

\* login.rs:702-718  tokio::select! of the navigation event and the sleep
\* of wait_time seconds: the wait ends at whichever comes first
PostWaitCall ==
    /\ call.fn = "post_submit_wait"
    /\ call.ret = Running
    /\ LET secs == wait_time(call.override, call.profile_wait) IN
       call' = [call EXCEPT
                   !.wait_time = secs,
                   !.waited = IF call.nav # NoneOpt /\ call.nav[1] < secs
                              THEN call.nav[1] ELSE secs,
                   !.ret = Returns("Ok")]
    /\ UNCHANGED <<sessions, requestVars>>

\* login.rs:253  text.replace("'", "\\'").replace("\\", "\\\\")
\*                    .replace("\n", "\\n")
escape_text(text) ==
    replace(replace(replace(text, "'", <<"\\", "'">>), "\\", <<"\\", "\\">>),
            "\n", <<"\\", "n">>)

\* login.rs:174  the script text from the character after the opening quote
\* of  const text = '{}';  to the end of that line
TextScript(text) == escape_text(text) \o <<"'", ";">>

\* what is left of the line after the quote that closes the literal
TextScriptRest(text) ==
    LET closed == JsString(TextScript(text), 1, << >>).closed IN
    IF closed = 0 THEN << >>
    ELSE SubSeq(TextScript(text), closed + 1, Len(TextScript(text)))

\* login.rs:174  the statement parses when the literal is closed by the
\* quote of the template, or when what follows an earlier closing quote is
\* the end of the statement and a line comment; every other remainder
\* tried here is a SyntaxError
TextScriptParses(text) ==
    LET rest == TextScriptRest(text) IN
    \/ rest = <<";">>
    \/ /\ Len(rest) >= 3
       /\ SubSeq(rest, 1, 3) = <<";", "/", "/">>
       /\ \A i \in 1..Len(rest) : rest[i] # "\n"

\* login.rs:174  the value of the script's  text  constant
ScriptText(text) == JsString(TextScript(text), 1, << >>).value

\* the texts typed: plain, with a backslash, with a quote, a quote followed
\* by the end of a statement and a comment, with a line feed, and empty
TextPool ==
    { <<"a", "b">>, <<"a", "\\", "n">>, <<"p", "'", "s">>,
      <<"'", ";", "/", "/">>, <<"a", "\n">>, << >> }

\* login.rs:139-143  a call of type_into_field; shown: the selector
\* matches a visible field, value: what the field holds, events: the
\* events dispatched on it
TypeCalls ==
    { [fn |-> "type_into_field", selector |-> sel, text |-> t,
       shown |-> v, value |-> old, events |-> << >>, typed |-> 0,
       at |-> "start", ret |-> Running] :
        sel \in {<<"#", "e">>, <<"[", "e", "=", "'", "m", "'", "]">>},
        t \in TextPool, v \in BOOLEAN, old \in {<< >>, <<"z">>} }

\* login.rs:145-171 and 250-255  the script is evaluated: a script that
\* does not parse, or a failed evaluation, is an Err of the call; a field
\* that is missing or hidden gives false; else the field is cleared
TypeStart ==
    /\ call.fn = "type_into_field"
    /\ call.at = "start"
    /\ \E evaluated \in BOOLEAN :
        IF ~evaluated \/ ~ProbeScriptParses(call.selector)
                      \/ ~TextScriptParses(call.text)
        THEN call' = [call EXCEPT !.at = "done", !.ret = Returns("Err")]
        ELSE IF ~call.shown
        THEN call' = [call EXCEPT !.at = "done", !.ret = Returns("false")]
        ELSE call' = [call EXCEPT
                         !.value = << >>,
                         !.events = <<<<"focusin", "">>, <<"focus", "">>>>,
                         !.at = "chars"]
    /\ UNCHANGED <<sessions, requestVars>>

\* login.rs:176-229  one round of the character loop; an exception ends
\* the script in its catch block, which returns false (login.rs:245-248)
TypeChar ==
    /\ call.fn = "type_into_field"
    /\ call.at = "chars"
    /\ call.typed < Len(ScriptText(call.text))
    /\ \E thrown \in BOOLEAN :
        LET char == ScriptText(call.text)[call.typed + 1] IN
        IF thrown
        THEN call' = [call EXCEPT !.at = "done", !.ret = Returns("false")]
        ELSE call' = [call EXCEPT
                         !.value = Append(call.value, char),
                         !.events = call.events \o
                             <<<<"keydown", char>>, <<"keypress", char>>,
                               <<"input", char>>, <<"keyup", char>>>>,
                         !.typed = call.typed + 1]
    /\ UNCHANGED <<sessions, requestVars>>

\* login.rs:231-244  after the last character: change, blur, focusout,
\* and the script returns true
TypeEnd ==
    /\ call.fn = "type_into_field"
    /\ call.at = "chars"
    /\ call.typed = Len(ScriptText(call.text))
    /\ call' = [call EXCEPT
                   !.events = call.events \o
                       <<<<"change", "">>, <<"blur", "">>, <<"focusout", "">>>>,
                   !.at = "done",
                   !.ret = Returns("true")]
    /\ UNCHANGED <<sessions, requestVars>>

\* login.rs:428  selector.replace("'", "\\'")
escape_click(selector) == replace(selector, "'", <<"\\", "'">>)

\* login.rs:411  the script text from the character after the opening quote
\* of querySelector('{}') to the closing parenthesis
ClickScript(selector) == escape_click(selector) \o <<"'", ")">>

\* login.rs:406  a call of click_element; page: the selectors that match a
\* visible element
ClickCalls ==
    { [fn |-> "click_element", selector |-> sel, page |-> pg,
       ret |-> Running] :
        sel \in SelectorPool, pg \in SUBSET SelectorPool }

\* login.rs:407-429  the script is evaluated: an Err when it does not parse
\* or the evaluation fails, else whether the queried element is visible
ClickCall ==
    /\ call.fn = "click_element"
    /\ call.ret = Running
    /\ \E evaluated \in BOOLEAN :
        LET lit == JsString(ClickScript(call.selector), 1, << >>) IN
        IF ~evaluated \/ lit.closed # Len(ClickScript(call.selector)) - 1
        THEN call' = [call EXCEPT !.ret = Returns("Err")]
        ELSE IF lit.value \in call.page
        THEN call' = [call EXCEPT !.ret = Returns("true")]
        ELSE call' = [call EXCEPT !.ret = Returns("false")]
    /\ UNCHANGED <<sessions, requestVars>>

\* login.rs:446-461, 469-477, 566  what auto_login derives from an explicit
\* platform id (no login_url override): the profile, the login URL and
\* whether the multi-step check applies
OverrideCalls ==
    { [fn |-> "platform_override", platform |-> id, target_url |-> u,
       ret |-> Running] :
        id \in PlatformIds, u \in TargetUrls }

\* login.rs:461  get_platform_config(platform); login.rs:469-477 the login
\* URL; login.rs:566 is_multi_step
OverrideCall ==
    /\ call.fn = "platform_override"
    /\ call.ret = Running
    /\ LET platform_id == call.platform
           config == get_platform_config(platform_id)
           login_url == IF config.login_url # EmptyUrl THEN config.login_url
                        ELSE get_login_url(platform_id, call.target_url)
           is_multi_step == platform_id \in MultiStepPlatforms
       IN call' = [call EXCEPT
                      !.ret = Returns([config |-> config,
                                       login_url |-> login_url,
                                       is_multi_step |-> is_multi_step])]
    /\ UNCHANGED <<sessions, requestVars>>

\* scraper.rs:128-135  what the page answers to the scroll-to-bottom
\* evaluations: one height per round, and the round whose evaluation fails
\* (0: none does)
ScrollCalls ==
    { [fn |-> "scroll", page |-> h, fail_at |-> f, at |-> "loop",
       last_height |-> -1, recorded |-> << >>, tops |-> 0, ret |-> Running] :
        h \in [1..ScrollRounds -> Heights], f \in 0..ScrollRounds }

\* ScrollRound without the break on an unchanged height
ScrollRound_NoBreak ==
    /\ call.fn = "scroll"
    /\ call.at = "loop"
    /\ LET round == Len(call.recorded) + 1
           new_height == call.page[round]
       IN IF round = call.fail_at
          THEN call' = [call EXCEPT !.at = "done",
                                    !.ret = Returns("EvaluationFailed")]
          ELSE call' = [call EXCEPT
                           !.recorded = Append(call.recorded, new_height),
                           !.last_height = new_height,
                           !.at = IF round = ScrollRounds
                                  THEN "top" ELSE "loop"]
    /\ UNCHANGED <<sessions, requestVars>>

\* scraper.rs:128-142  one round of the loop of scroll_for_lazy_content
ScrollRound ==
    /\ call.fn = "scroll"
    /\ call.at = "loop"
    /\ LET round == Len(call.recorded) + 1
           new_height == call.page[round]
       IN IF round = call.fail_at
          THEN call' = [call EXCEPT !.at = "done",
                                    !.ret = Returns("EvaluationFailed")]
          ELSE IF new_height = call.last_height
          THEN call' = [call EXCEPT
                           !.recorded = Append(call.recorded, new_height),
                           !.at = "top"]
          ELSE call' = [call EXCEPT
                           !.recorded = Append(call.recorded, new_height),
                           !.last_height = new_height,
                           !.at = IF round = ScrollRounds
                                  THEN "top" ELSE "loop"]
    /\ UNCHANGED <<sessions, requestVars>>

\* scraper.rs:143-145  back to the top; the result of the evaluation is
\* dropped
ScrollTop ==
    /\ call.fn = "scroll"
    /\ call.at = "top"
    /\ call' = [call EXCEPT !.tops = call.tops + 1, !.at = "done",
                            !.ret = Returns("Ok")]
    /\ UNCHANGED <<sessions, requestVars>>

CallInit ==
    /\ IdleRequest
    /\ call \in WaitCalls \cup ConfigCalls \cup ExtractCalls \cup DetectCalls
                \cup ClassifyCalls \cup FieldCalls \cup BannerCalls
                \cup PostWaitCalls \cup ScrollCalls \cup TypeCalls
                \cup ClickCalls \cup OverrideCalls

CallNext ==
    \/ WaitProbe \/ WaitSleep \/ WaitGiveUp
    \/ ConfigLookup
    \/ ExtractText \/ ExtractImages \/ ExtractLinks
    \/ DetectCall
    \/ ClassifyCall
    \/ FieldCall
    \/ BannerAttempt
    \/ PostWaitCall
    \/ ScrollRound
    \/ ScrollTop
    \/ TypeStart
    \/ TypeChar
    \/ TypeEnd
    \/ ClickCall
    \/ OverrideCall

CallSpec == CallInit /\ [][CallNext]_vars


\* -------------------------------------------- requests served side by side
\* SessionSpec follows several requests of the /scrape handler in flight at
\* once, each through do_scrape: which browser and page it owns and on
\* which page each of its driver operations is issued.

\* the requests in flight at once
NumRequests == 2
\* the driver operations followed per request
MaxOps == 2

RequestIds == 1..NumRequests

\* handlers.rs:9-13  a request that has been received: no Scraper yet
Received == [phase |-> "received", browser |-> 0, page |-> <<0, 0>>, ops |-> 0]

\* sessions.of[r] is what request r owns, launched counts the browser
\* processes started so far, issued holds the driver operations issued:
\* by which request, on which page
SessionInit ==
    /\ req = [url |-> <<"https://", "example.com", "/profile">>,
              login |-> NoneOpt]
    /\ Fresh
    /\ call = NoCall
    /\ sessions = [of |-> [r \in RequestIds |-> Received],
                   launched |-> 0, issued |-> {}]

\* Launch giving every request the one browser started first
LaunchSession_Shared(r) ==
    /\ sessions.of[r].phase = "received"
    /\ \E outcome \in {"ok", "launch_err", "build_err"} :
        sessions' =
            CASE outcome = "ok" ->
                    [sessions EXCEPT
                        !.of[r].phase = "launched",
                        !.of[r].browser = 1,
                        !.launched = @ + 1]
              [] outcome = "launch_err" ->
                    [sessions EXCEPT !.of[r].phase = "responded"]
              [] outcome = "build_err" ->
                    [sessions EXCEPT !.of[r].phase = "panicked"]
    /\ UNCHANGED <<call, requestVars>>

\* scraper.rs:323-325 and 41-43  do_scrape builds its own Scraper, whose
\* Browser::launch starts a new browser process; when the configuration
\* cannot be built the task of the request panics and sends no response
LaunchSession(r) ==
    /\ sessions.of[r].phase = "received"
    /\ \E outcome \in {"ok", "launch_err", "build_err"} :
        sessions' =
            CASE outcome = "ok" ->
                    [sessions EXCEPT
                        !.of[r].phase = "launched",
                        !.of[r].browser = sessions.launched + 1,
                        !.launched = @ + 1]
              [] outcome = "launch_err" ->
                    [sessions EXCEPT !.of[r].phase = "responded"]
              [] outcome = "build_err" ->
                    [sessions EXCEPT !.of[r].phase = "panicked"]
    /\ UNCHANGED <<call, requestVars>>

\* scraper.rs:55-58  browser.new_page on the Scraper's own browser
NewSessionPage(r) ==
    /\ sessions.of[r].phase = "launched"
    /\ \E ok \in BOOLEAN :
        sessions' =
            IF ok
            THEN [sessions EXCEPT
                     !.of[r].phase = "scraping",
                     !.of[r].page = <<sessions.of[r].browser, 1>>]
            ELSE [sessions EXCEPT !.of[r].phase = "responded"]
    /\ UNCHANGED <<call, requestVars>>

\* scraper.rs:63, 149-308 and login.rs  a driver operation of request r:
\* every one of them is issued on self.page, or on the page reference
\* scrape passes to auto_login
Operate(r) ==
    /\ sessions.of[r].phase = "scraping"
    /\ sessions.of[r].ops < MaxOps
    /\ sessions' = [sessions EXCEPT
                       !.of[r].ops = @ + 1,
                       !.issued = @ \cup {[by |-> r, on |-> sessions.of[r].page]}]
    /\ UNCHANGED <<call, requestVars>>

\* scraper.rs:311-320 and handlers.rs:13-42  scrape returns, the Scraper
\* is dropped and the response is sent
FinishSession(r) ==
    /\ sessions.of[r].phase = "scraping"
    /\ sessions' = [sessions EXCEPT !.of[r].phase = "responded"]
    /\ UNCHANGED <<call, requestVars>>

SessionNext ==
    \E r \in RequestIds :
        \/ LaunchSession(r)
        \/ NewSessionPage(r)
        \/ Operate(r)
        \/ FinishSession(r)

SessionSpec == SessionInit /\ [][SessionNext]_vars

\* ------------------------------------------------------------- properties
\* the steps of the form flow of auto_login
FormSteps ==
    {"nav_login", "type_email", "password_early", "advance",
     "advance_failed", "type_password", "submit_click", "submit_enter",
     "submit_none"}

\* the steps auto_login alone performs
LoginSteps ==
    FormSteps \cup {"set_cookies", "dismiss_banner", "classify",
                    "al_nav_target", "al_nav_target_failed",
                    "nav_login_failed"}

\* the steps of scrape after its login stage
ExtractionSteps ==
    {"scrape_nav_target", "nav_target_failed", "body_wait", "scroll",
     "scroll_top", "extract"}

\* the positions inside auto_login
LoginPcs ==
    {"al_start", "al_cookies", "al_nav", "al_banners", "al_email",
     "al_multistep", "al_password", "al_submit", "al_wait", "al_prompts",
     "al_classify", "al_final_nav", "al_return"}

\* do_scrape has returned
Returned == pc \in {"respond", "done"}

\* the errors scrape returns from its navigation and extraction stages
ExtractionErrors == {"Navigation", "ContentExtraction", "EvaluationFailed"}

\* C1: once classification has detected a captcha or a two-factor prompt,
\* no navigation to the target, body wait, scroll or extraction is ever
\* performed, do_scrape returns an error and the response is a failure.
C1_ShortCircuit ==
    (probe.ran /\ probe.outcome \in {"captcha", "two_factor"}) =>
        /\ pc \in {"al_return", "respond", "done"}
        /\ steps \cap (ExtractionSteps \cup {"al_nav_target"}) = {}
        /\ Returned => result.kind = "err"
        /\ pc = "done" => ~response.success /\ response.error # NoneOpt

C1_Witness ==
    /\ pc = "done"
    /\ probe.ran /\ probe.outcome = "captcha"
    /\ response.status = 500

\* C2: when the supplied cookies authenticate the page, auto_login ends as
\* authenticated without the form flow: the login URL is never navigated to
\* and nothing is typed or submitted.
C2_CookieAuthSkipsForm ==
    (req.login # NoneOpt /\ credentials.cookie_auth) =>
        /\ steps \cap FormSteps = {}
        /\ alRet.kind # "none" => alRet.kind = "ok" /\ alRet.success

\* C3: on a page with both captcha and 2FA markers, where the captcha probe
\* fires first, the outcome scrape reports is the captcha outcome and never
\* the two-factor outcome.
C3_CaptchaNotTwoFactor ==
    (post.captcha /\ post.tfa /\ probe.ran /\ probe.outcome = "captcha"
       /\ Returned) =>
        result # ScrapeErr("TwoFactorAuthRequired")

\* C4: when the post-submit page contains a one-time-code input, the
\* response has requires2FA=true, carries the 2FA error, and nothing was
\* extracted.
C4_TwoFactorResponse ==
    (post.tfa /\ probe.ran /\ probe.outcome = "two_factor" /\ pc = "done") =>
        /\ response.requires_2fa = Some(TRUE)
        /\ response.error = Some("TwoFactorAuthRequired")
        /\ steps \cap ExtractionSteps = {}

\* C5: the response of a request whose login was run reports
\* loginAttempted=true and the login outcome on every terminal path; the
\* response of a request without credentials reports loginAttempted=false.
C5_LoginAlwaysReported ==
    pc = "done" =>
        /\ alRet.kind # "none" =>
              /\ response.login_attempted
              /\ response.login_success # NoneOpt
        /\ req.login = NoneOpt => ~response.login_attempted

\* C6: for a request without credentials auto_login is never entered, the
\* login metadata is (false, None, None, None) in scrape, in its result and
\* in the response, and nothing but navigation and extraction steps run.
C6_NoCredentials ==
    req.login = NoneOpt =>
        /\ pc \notin LoginPcs
        /\ alRet.kind = "none" /\ platform = "" /\ ~probe.ran
        /\ steps \cap LoginSteps = {}
        /\ meta.set =>
              /\ ~meta.login_attempted
              /\ meta.login_success = NoneOpt
              /\ meta.platform_detected = NoneOpt
              /\ meta.requires_2fa = NoneOpt
        /\ result.kind = "ok" =>
              /\ ~result.login_attempted
              /\ result.login_success = NoneOpt
              /\ result.platform_detected = NoneOpt
              /\ result.requires_2fa = NoneOpt
        /\ pc = "done" =>
              /\ ~response.login_attempted
              /\ response.login_success = NoneOpt
              /\ response.platform_detected = NoneOpt
              /\ response.requires_2fa = NoneOpt

C6_Witness ==
    /\ req.login = NoneOpt
    /\ pc = "done"
    /\ response.success
    /\ "extract" \in steps

\* C7: when the post-submit page shows a credential error and no captcha
\* or 2FA indicator, scrape goes on with loginSuccess=false and
\* requires2FA=false: a result carries these values, and the request can
\* only fail in navigation or extraction, never because of the login.
C7_CredentialError ==
    (post.shown /\ post.err /\ ~post.captcha /\ ~post.tfa) =>
        /\ alRet.kind = "ok" => ~alRet.success /\ alRet.tfa = Some(FALSE)
        /\ meta.set =>
              /\ meta.login_success = Some(FALSE)
              /\ meta.requires_2fa = Some(FALSE)
        /\ result.kind = "ok" =>
              /\ result.login_success = Some(FALSE)
              /\ result.requires_2fa = Some(FALSE)
        /\ result.kind = "err" => result.error \in ExtractionErrors

\* a structural failure has happened: launch, page creation, a required
\* login field never found, or a failed navigation
StructuralFailure ==
    \/ steps \cap {"build_panic", "launch_failed", "page_failed",
                   "nav_login_failed",
                   "al_nav_target_failed", "nav_target_failed"} # {}
    \/ /\ alRet.kind = "err"
       /\ alRet.error \in {"Email field not found", "Password field not found"}

\* C8: after any structural failure (the browser cannot be launched, the
\* page cannot be created, a login field is never found, a navigation
\* fails) do_scrape returns an Err and no extracted document.
C8_StructuralFailureIsError ==
    ((Returned \/ pc = "panicked") /\ StructuralFailure) => result.kind = "err"

\* C9: on every exit path of do_scrape after the launch, the browser has
\* been handed to the teardown that closes it.
C9_ClosedOnEveryExit ==
    (Returned /\ browser # "none") => browser \in {"closing", "closed"}

\* C10: a failed evasion step does not abort the request: do_scrape does
\* not return the evasion's EvaluationFailed error before scrape has run.
C10_EvasionFailureTolerated ==
    (evasion \notin {"pending", "ok"} /\ Returned) =>
        \/ result # ScrapeErr("EvaluationFailed")
        \/ "scroll" \in steps

\* the steps of auto_login that come after the email field
AfterEmailSteps ==
    {"type_email", "password_early", "advance", "advance_failed",
     "password_not_found", "type_password",
     "submit_click", "submit_enter", "submit_none", "classify",
     "al_nav_target", "al_nav_target_failed",
     "al_url_unknown"}

\* the steps of auto_login that come after the password field
AfterPasswordSteps ==
    {"type_password", "submit_click", "submit_enter", "submit_none",
     "classify", "al_nav_target", "al_nav_target_failed",
     "al_url_unknown"}

\* C11: a failed script evaluation never makes auto_login or scrape return
\* an error: auto_login never returns the error of a failed evaluation, and
\* scrape never returns EvaluationFailed from the lazy-load scroll.
C11_EvaluationFailureAbsorbed ==
    /\ alRet.kind = "err" => alRet.error # "evaluate"
    /\ (Returned /\ "scroll" \in steps) =>
          result # ScrapeErr("EvaluationFailed")

\* C12: when no submit button was clicked and the Enter/form.submit script
\* did not apply either, auto_login has returned an error and has run
\* neither the post-submit wait nor the classification.
C12_UnsubmittedFormIsFatal ==
    "submit_none" \in steps =>
        /\ alRet.kind = "err"
        /\ ~post.shown
        /\ ~probe.ran

\* C13: when no email selector, or no password selector, became visible
\* within its wait, auto_login has returned the matching error at that step
\* and no later step of auto_login is ever performed.
C13_MissingFieldIsFatal ==
    /\ "email_not_found" \in steps =>
          /\ alRet = LoginErr("Email field not found")
          /\ steps \cap AfterEmailSteps = {}
          /\ ~post.shown /\ ~probe.ran
    /\ "password_not_found" \in steps =>
          /\ alRet = LoginErr("Password field not found")
          /\ steps \cap AfterPasswordSteps = {}
          /\ ~post.shown /\ ~probe.ran

C13_Witness ==
    /\ "password_not_found" \in steps
    /\ "type_email" \in steps
    /\ pc = "done"

\* C19: the body element is probed at most BodyProbes times, and a request
\* whose body wait failed returns ContentExtraction without any scroll or
\* extraction step.
C19_BodyWaitBounded ==
    /\ pc = "body_wait" => cnt < BodyProbes
    /\ result = ScrapeErr("ContentExtraction") =>
          /\ "body_wait" \in steps
          /\ steps \cap {"scroll", "scroll_top", "extract"} = {}
          /\ Returned

C19_Witness ==
    /\ result = ScrapeErr("ContentExtraction")
    /\ pc = "done"
    /\ response.status = 500

\* C14: the selector wait_for_any_element returns comes, in the list, at or
\* before every selector that matches a visible element at that tick (in a
\* tick in which no evaluation was dropped by the driver).
C14_FirstVisibleInListOrder ==
    (/\ call.fn = "wait_for_any_element"
     /\ call.ret.kind = "returned" /\ call.ret.value # NoneOpt
     /\ ~call.dropped) =>
        \A j \in 1..Len(call.selectors) :
            call.selectors[j] \in call.page =>
                \E i \in 1..j : call.selectors[i] = call.ret.value[1]

\* C15: when wait_for_any_element returns not-found, the time since the
\* call, evaluations and sleeps together, is at least timeout_ms and at
\* most timeout_ms plus one polling interval.
C15_NotFoundAtTimeout ==
    (/\ call.fn = "wait_for_any_element"
     /\ call.ret.kind = "returned" /\ call.ret.value = NoneOpt) =>
        /\ call.clock >= call.timeout_ms
        /\ call.clock <= call.timeout_ms + CheckIntervalMs

\* C16: for a platform id that is no spelling of a catalog id,
\* get_platform_config returns the generic profile: non-empty email,
\* password and submit selector lists, an empty login URL and no
\* success-indicator list.
C16_UnknownIdGetsGeneric ==
    (/\ call.fn = "get_platform_config"
     /\ call.ret.kind = "returned"
     /\ call.platform \in UNION OtherSpellings) =>
        /\ call.ret.value = GenericConfig
        /\ call.ret.value.email_selectors # << >>
        /\ call.ret.value.password_selectors # << >>
        /\ call.ret.value.submit_selectors # << >>
        /\ call.ret.value.login_url = EmptyUrl
        /\ ~call.ret.value.has_checks
        /\ call.ret.value.additional_checks = << >>

C16_Witness ==
    /\ call.fn = "get_platform_config"
    /\ call.platform = "Google"
    /\ call.ret.kind = "returned"

\* C17: get_platform_config returns the same profile for every spelling of
\* an id in upper and lower case, and the same profile for "twitter" and
\* "x".
C17_CaseInsensitiveAliasStable ==
    (call.fn = "get_platform_config" /\ call.ret.kind = "returned") =>
        /\ \A class \in CatalogSpellings \cup OtherSpellings :
              call.platform \in class =>
                  \A other \in class :
                      get_platform_config(other) = call.ret.value
        /\ call.platform \in {"twitter", "Twitter", "TWITTER", "x", "X"} =>
              \A other \in {"twitter", "x"} :
                  get_platform_config(other) = call.ret.value

C17_Witness ==
    /\ call.fn = "get_platform_config"
    /\ call.platform = "X"
    /\ call.ret.kind = "returned"
    /\ call.ret.value.wait_after_login = 7

\* the img elements of the page whose resolved source starts with http
HttpImages(imgs) ==
    Cardinality({i \in 1..Len(imgs) : starts_with_http(imgs[i].src)})

\* C18 as stated: at most 20 images, exactly 20 for a page with 500
\* images, at most 50 links, link texts of at most 200 characters and a
\* body text of at most 100,000 characters.
C18_ExtractionCaps ==
    (call.fn = "extract" /\ call.at = "done") =>
        /\ Len(call.images) <= 20
        /\ Len(call.imgs) = 500 => Len(call.images) = 20
        /\ Len(call.links) <= 50
        /\ \A i \in 1..Len(call.links) : call.links[i].text <= 200
        /\ call.text # NoneOpt => call.text[1] <= 100000

\* C18 amended: the caps hold for every page; the image list has exactly
\* 20 entries when the images script was evaluated on a page with at least
\* 20 images whose resolved source starts with http, and as many entries
\* as there are such images when there are fewer.
C18_Amended ==
    (call.fn = "extract" /\ call.at = "done") =>
        /\ Len(call.images) <= 20
        /\ "images" \in call.evaluated =>
              Len(call.images) = IF HttpImages(call.imgs) >= 20 THEN 20
                                 ELSE HttpImages(call.imgs)
        /\ "images" \notin call.evaluated => call.images = << >>
        /\ Len(call.links) <= 50
        /\ \A i \in 1..Len(call.links) : call.links[i].text <= 200
        /\ call.text # NoneOpt => call.text[1] <= 100000

C18_Witness ==
    /\ call.fn = "extract" /\ call.at = "done"
    /\ Len(call.imgs) = 500 /\ HttpImages(call.imgs) = 250
    /\ Len(call.images) = 20
    /\ Len(call.links) = 50
    /\ call.links[1].text = 200
    /\ call.text = Some(100000) /\ call.body = 500000

\* C20: with several requests in flight, every request that has a browser
\* has one that no other request has, every page belongs to the browser of
\* its request, and every driver operation was issued by the request that
\* owns the page it was issued on.
C20_SessionsIsolated ==
    sessions # NoSessions =>
        /\ \A r, q \in RequestIds :
              (r # q /\ sessions.of[r].browser # 0) =>
                  /\ sessions.of[r].browser # sessions.of[q].browser
                  /\ sessions.of[r].page = <<0, 0>>
                        \/ sessions.of[r].page # sessions.of[q].page
        /\ \A op \in sessions.issued :
              /\ op.on = sessions.of[op.by].page
              /\ \A q \in RequestIds \ {op.by} : sessions.of[q].page # op.on

C20_Witness ==
    /\ sessions # NoSessions
    /\ \E r, q \in RequestIds :
          /\ r # q
          /\ sessions.of[r].phase = "scraping"
          /\ sessions.of[q].phase = "scraping"
          /\ {op.by : op \in sessions.issued} = {r, q}

\* C21: a false result of type_into_field (the field is missing or not
\* visible) never makes auto_login return an error.
C21_FalseTypingNotFatal ==
    alRet.kind = "err" =>
        alRet.error \notin {"Failed to enter email", "Failed to enter password"}

\* C22: set_cookies attempts every supplied cookie whichever of them fail,
\* and after a failed cookie auto_login still goes on to the navigation to
\* the login URL, the first step of the form flow.
C22_CookieFailureNotFatal ==
    /\ (pc = "al_nav" /\ credentials.cookies # NoneOpt) =>
          /\ cnt = credentials.cookies[1]
          /\ "set_cookies" \in steps
    /\ "cookie_failed" \in steps =>
          /\ alRet.kind = "err" => alRet.error # "cookie"
          /\ pc \notin {"al_cookies", "al_nav"} =>
                steps \cap {"nav_login", "nav_login_failed"} # {}

C22_Witness ==
    /\ "cookie_failed" \in steps
    /\ "type_password" \in steps
    /\ credentials.cookies = Some(MaxCookies)

\* the platform whose domain a hostname is, or is a subdomain of
HostPlatform(host) ==
    CASE host \in {"accounts.google.com", "mail.google.com"} -> "google"
      [] host = "www.linkedin.com" -> "linkedin"
      [] host = "www.reddit.com" -> "reddit"
      [] host \in {"twitter.com", "x.com"} -> "twitter"
      [] host = "github.com" -> "github"
      [] host = "login.live.com" -> "microsoft"
      [] OTHER -> "generic"

\* C23: when no platform is supplied, the platform is the one the hostname
\* of the target URL belongs to, and "generic" when the hostname belongs to
\* none, whatever the path and the query hold.
C23_PlatformFromHostname ==
    (/\ call.fn = "detect_platform"
     /\ call.ret.kind = "returned"
     /\ call.supplied = NoneOpt) =>
        call.ret.value = HostPlatform(call.url[2])

\* every request comes to an end after finitely many steps: its response
\* is sent, or its task has ended in the panic of Scraper::new
EveryRequestEnds == <>(pc \in {"done", "panicked"})

C25_ClassificationOrder ==
    (call.fn = "classify" /\ call.ret.kind = "returned") =>
        LET captcha == call.runs.captcha /\ call.page.captcha
            tfa == call.runs.tfa /\ call.page.tfa
            err == call.runs.err /\ call.page.err
            indicator == call.config.has_checks /\ call.facts.indicator
            heuristic == /\ call.runs.heur
                         /\ ~call.facts.visibleLogins
                         /\ \/ call.facts.hasUserIndicators
                            \/ call.href[3] # "/login"
        IN /\ tfa => call.ret.value = LoginOk(FALSE, call.platform, TRUE)
           /\ (~captcha /\ ~tfa /\ err) =>
                 call.ret.value = LoginOk(FALSE, call.platform, FALSE)
           /\ (~captcha /\ ~tfa /\ ~err) =>
                 call.ret.value =
                     LoginOk(indicator \/ heuristic, call.platform, FALSE)

C25_Witness ==
    /\ call.fn = "classify" /\ call.ret.kind = "returned"
    /\ ~call.page.captcha /\ ~call.page.tfa
    /\ call.page.err /\ call.runs.err
    /\ call.config.has_checks /\ call.facts.indicator
    /\ call.ret.value = LoginOk(FALSE, "github", FALSE)

\* C26: the login URL auto_login resolves, and navigates to, is the
\* explicit override when there is one, else the profile's login URL when
\* it is not empty, else the heuristic URL of the platform, else the
\* target URL.
C26_LoginUrlPriority ==
    (req.login # NoneOpt /\ platform # "") =>
        /\ IF credentials.login_url # NoneOpt
           THEN loginUrl = credentials.login_url[1]
           ELSE IF get_platform_config(platform).login_url # EmptyUrl
           THEN loginUrl = get_platform_config(platform).login_url
           ELSE /\ loginUrl = get_login_url(platform, req.url)
                /\ platform = "google" =>
                      loginUrl = <<"https://", "accounts.google.com", "/signin">>
                /\ platform = "generic" => loginUrl = req.url
        /\ pc = "al_banners" =>
              /\ "nav_login" \in steps
              /\ curUrl \in Landing(loginUrl)

C26_Witness ==
    /\ req.login # NoneOpt
    /\ platform = "google"
    /\ "nav_login" \in steps
    /\ loginUrl = <<"https://", "accounts.google.com", "/signin">>

\* the selectors of the platform's profile for a field
ProfileSelectors(field, plat) ==
    LET config == get_platform_config(plat) IN
    CASE field = "email" -> config.email_selectors
      [] field = "password" -> config.password_selectors
      [] OTHER -> config.submit_selectors

\* C27: the search for a field fails only when neither the override
\* selector nor any selector of the profile is found visible: the profile's
\* selectors are tried after an override that matches nothing.
C27_SelectorFallbackChain ==
    (/\ call.fn = "find_field"
     /\ call.ret.kind = "returned"
     /\ call.ret.value = NoneOpt) =>
        \A i \in 1..Len(ProfileSelectors(call.field, call.platform)) :
            ~is_visible(ProfileSelectors(call.field, call.platform)[i],
                        call.visible)

\* C28 as stated: at most 3 attempts, and no attempt follows an attempt
\* that clicked nothing, the first included.
C28_StopsAtFirstMiss ==
    call.fn = "dismiss_cookie_banners" =>
        /\ Len(call.clicks) <= 3
        /\ \A i \in 1..(Len(call.clicks) - 1) : call.clicks[i]

\* C28 amended: at most 3 attempts; no attempt follows a second or third
\* attempt that clicked nothing; a first attempt that clicked nothing is
\* followed by a second one; the loop ends only after the third attempt
\* or after a later-than-first attempt that clicked nothing.
C28_Amended ==
    call.fn = "dismiss_cookie_banners" =>
        /\ Len(call.clicks) <= 3
        /\ \A i \in 2..(Len(call.clicks) - 1) : call.clicks[i]
        /\ call.ret.kind = "returned" =>
              \/ Len(call.clicks) = 3
              \/ Len(call.clicks) = 2 /\ ~call.clicks[2]

C28_Witness ==
    /\ call.fn = "dismiss_cookie_banners"
    /\ call.ret.kind = "returned"
    /\ call.clicks = <<FALSE, FALSE>>

\* C29: an advance is attempted only on a platform of the allow-list and
\* only when the 2 s probe did not see the password field; an advance that
\* found nothing to click is followed by the wait for the password field,
\* never by an error of its own.
C29_AdvanceOnlyOnAllowList ==
    /\ "advance" \in steps =>
          /\ platform \in {"google", "linkedin", "twitter", "x", "facebook",
                           "microsoft"}
          /\ "password_early" \notin steps
    /\ "password_early" \in steps =>
          platform \in {"google", "linkedin", "twitter", "x", "facebook",
                        "microsoft"}
    /\ "advance_failed" \in steps =>
          \/ pc = "al_password"
          \/ steps \cap {"type_password", "password_not_found"} # {}
          \/ alRet.kind = "err"
                /\ alRet.error \in {"evaluate", "Failed to enter password"}

C29_Witness ==
    /\ "advance_failed" \in steps
    /\ "type_password" \in steps
    /\ platform = "linkedin"

\* C30: the post-submit wait duration is never below 8 s, is the override
\* when the override is at least 8, is the profile's wait or 8, whichever
\* is larger, without an override, and the wait ends at the navigation
\* event or after that duration, whichever comes first.
C30_PostSubmitWaitFloor ==
    (call.fn = "post_submit_wait" /\ call.ret.kind = "returned") =>
        /\ call.wait_time >= 8
        /\ call.override # NoneOpt =>
              call.wait_time = IF call.override[1] >= 8
                               THEN call.override[1] ELSE 8
        /\ call.override = NoneOpt =>
              call.wait_time = IF call.profile_wait >= 8
                               THEN call.profile_wait ELSE 8
        /\ call.waited <= call.wait_time
        /\ call.nav # NoneOpt => call.waited <= call.nav[1]
        /\ \/ call.waited = call.wait_time
           \/ call.nav # NoneOpt /\ call.waited = call.nav[1]

C30_Witness ==
    /\ call.fn = "post_submit_wait" /\ call.ret.kind = "returned"
    /\ call.override = Some(5) /\ call.profile_wait = 6
    /\ call.wait_time = 8
    /\ call.nav = Some(20) /\ call.waited = 8

\* the steps that are a navigation of auto_login to the target URL after a
\* successful classification
FinalNavSteps == {"al_nav_target", "al_nav_target_failed"}

\* C31: when the login was classified as successful, auto_login on its
\* last step (the one that leaves al_final_nav) goes to the target URL
\* before returning exactly when the current URL does not
\* correspond to the target (the target does not contain it).
C31_NavigatesUnlessOnTarget ==
    [][(pc = "al_final_nav" /\ pc' # pc) =>
         ((steps' \cap FinalNavSteps # {}) <=> ~Contains(req.url, curUrl))]_vars

\* C31 (amended): auto_login goes to the target exactly when the current
\* URL could be read, the target does not contain it, and the target is
\* not the login URL itself.
C31_Amended ==
    [][(pc = "al_final_nav" /\ pc' # pc) =>
         /\ (steps' \cap FinalNavSteps # {}) =>
               /\ ~Contains(req.url, curUrl)
               /\ req.url # loginUrl
               /\ "al_url_unknown" \notin steps'
         /\ (steps' \cap FinalNavSteps = {}) =>
               \/ Contains(req.url, curUrl)
               \/ req.url = loginUrl
               \/ "al_url_unknown" \in steps']_vars

C31_Witness ==
    /\ pc = "al_return"
    /\ alRet.kind = "ok" /\ alRet.success
    /\ "classify" \in steps
    /\ "al_nav_target" \in steps
    /\ req.url # loginUrl

\* C32: scroll_for_lazy_content evaluates the scroll to the bottom at most
\* 5 times, makes no further evaluation once two consecutive heights are
\* equal, and scrolls back to the top exactly once when the loop ends
\* without an error (and not at all before that or after an error).
C32_ScrollBounded ==
    call.fn = "scroll" =>
        LET n == Len(call.recorded) IN
        /\ n <= 5
        /\ \A i \in 1..(n - 2) : call.recorded[i] # call.recorded[i + 1]
        /\ (call.at = "loop" /\ n >= 2) =>
              call.recorded[n - 1] # call.recorded[n]
        /\ call.at = "loop" => n < 5
        /\ call.at = "top" =>
              \/ n = 5
              \/ n >= 2 /\ call.recorded[n - 1] = call.recorded[n]
        /\ call.tops = IF call.ret = Returns("Ok") THEN 1 ELSE 0
        /\ call.at = "done" => call.ret \in {Returns("Ok"),
                                             Returns("EvaluationFailed")}

C32_Witness ==
    /\ call.fn = "scroll"
    /\ call.ret = Returns("Ok")
    /\ call.recorded = <<0, 1, 1>>
    /\ call.tops = 1

\* the events type_into_field dispatches for the first n characters of t
RECURSIVE KeyEvents(_, _)
KeyEvents(t, n) ==
    IF n = 0 THEN << >>
    ELSE KeyEvents(t, n - 1) \o
         <<<<"keydown", t[n]>>, <<"keypress", t[n]>>, <<"input", t[n]>>,
           <<"keyup", t[n]>>>>

\* type_into_field types the characters the script holds, in order, each
\* with its keydown, input and keyup before the next, on a cleared field,
\* and dispatches change and blur only after the last of them
TypingEventsInOrder ==
    (call.fn = "type_into_field" /\ call.at # "start"
                                 /\ call.events # << >>) =>
        LET t == ScriptText(call.text)
            keys == KeyEvents(t, call.typed)
            head == <<<<"focusin", "">>, <<"focus", "">>>>
            tail == <<<<"change", "">>, <<"blur", "">>, <<"focusout", "">>>>
        IN /\ call.value = SubSeq(t, 1, call.typed)
           /\ \/ call.events = head \o keys
              \/ /\ call.events = head \o keys \o tail
                 /\ call.typed = Len(t)
                 /\ call.ret = Returns("true")
           /\ call.ret = Returns("true") =>
                 call.events = head \o keys \o tail

\* C33: type_into_field clears the field, types the characters of the
\* text in order with keydown, input, keyup for each before the next,
\* dispatches change and blur only after the last character, and when it
\* returns true the field holds the given text.
C33_TypesTheGivenText ==
    /\ TypingEventsInOrder
    /\ (call.fn = "type_into_field" /\ call.ret = Returns("true")) =>
          call.value = call.text

\* C34: a tuple auto_login returns never has success = true together with
\* tfa = Some(true), and no ScrapedData scrape returns (nor the response
\* built from it) has requires_2fa = Some(true).
C34_NoSuccessWithTfa ==
    /\ (alRet.kind = "ok" /\ alRet.tfa = Some(TRUE)) => ~alRet.success
    /\ (alRet.kind = "ok" /\ alRet.success) => alRet.tfa = Some(FALSE)
    /\ meta.set => meta.requires_2fa # Some(TRUE)
    /\ result.kind = "ok" => result.requires_2fa # Some(TRUE)
    /\ (alRet.kind = "ok" /\ alRet.tfa = Some(TRUE) /\ result.kind # "none") =>
          /\ result.kind = "err"
          /\ result.error = "TwoFactorAuthRequired"

C34_Witness ==
    /\ alRet.kind = "ok" /\ alRet.tfa = Some(TRUE) /\ ~alRet.success
    /\ probe.ran /\ probe.outcome = "two_factor"
    /\ result.kind = "err" /\ result.error = "TwoFactorAuthRequired"
    /\ pc = "done"

\* C35: a ScrapedData with login_attempted = true carries the platform
\* auto_login resolved, also when auto_login ended with an error.
C35_PlatformAlwaysReported ==
    (result.kind = "ok" /\ result.login_attempted) =>
        /\ result.platform_detected # NoneOpt
        /\ result.platform_detected = Some(platform)

\* the steps in which auto_login tries to submit the form
SubmitSteps == {"submit_click", "submit_enter", "submit_none"}

\* C36: in auto_login the password is typed only after the email was typed
\* successfully, the submit step runs only after both were typed
\* successfully, and the outcome is classified only after the submit step.
C36_StepsInOrder ==
    /\ (pc \in {"al_multistep", "al_password"} \/ "type_password" \in steps
        \/ steps \cap {"advance", "password_early", "password_not_found"} # {})
          => "type_email" \in steps
    /\ (pc = "al_submit" \/ steps \cap SubmitSteps # {})
          => {"type_email", "type_password"} \subseteq steps
    /\ (pc \in {"al_wait", "al_prompts", "al_classify", "al_final_nav"}
        \/ "classify" \in steps \/ probe.ran)
          => steps \cap SubmitSteps # {}

C36_Witness ==
    /\ "classify" \in steps
    /\ "submit_click" \in steps
    /\ {"type_email", "type_password"} \subseteq steps
    /\ pc = "al_return"

\* a string embedded by wait_for_any_element or type_into_field as a
\* selector: the literal is closed by the quote of the template and denotes
\* the string
SelectorRoundTrip(selector) ==
    /\ ProbeScriptParses(selector)
    /\ QueriedSelector(selector) = selector

\* C37: every selector and text the probes and the typing have
\* embedded in a single-quoted script literal gave a well-formed literal
\* that denotes the original string.
C37_EscapingRoundTrip ==
    /\ call.fn = "wait_for_any_element" =>
          \A i \in 1..Len(call.selectors) :
              (i < call.next \/ call.ret = Returns(Some(call.selectors[i])))
                  => SelectorRoundTrip(call.selectors[i])
    /\ (call.fn = "type_into_field" /\ call.at # "start") =>
          /\ SelectorRoundTrip(call.selector)
          /\ JsString(TextScript(call.text), 1, << >>).closed
                 = Len(TextScript(call.text)) - 1
          /\ ScriptText(call.text) = call.text

\* C38: for every spelling of a platform id, the profile, the login URL
\* and the multi-step decision auto_login derives from it are those of the
\* lower-case id.
C38_OverrideCaseInsensitive ==
    (call.fn = "platform_override" /\ call.ret.kind = "returned") =>
        LET lower == to_lowercase(call.platform)
            config == get_platform_config(lower)
        IN /\ call.ret.value.config = config
           /\ call.ret.value.login_url =
                 (IF config.login_url # EmptyUrl THEN config.login_url
                  ELSE get_login_url(lower, call.target_url))
           /\ call.ret.value.is_multi_step = (lower \in MultiStepPlatforms)

\* the steps in which scrape goes to the target URL
ScrapeNavSteps == {"scrape_nav_target", "nav_target_failed"}

\* C39: after a successful login the target URL is gone to at most once
\* by auto_login and scrape together, and on the URLs the page is at when
\* either test runs, the test of auto_login (the target contains the
\* current URL) and the test of scrape (the current URL starts with the
\* target) give the same answer.
C39_TargetVisitedOnce ==
    /\ (alRet.kind = "ok" /\ alRet.success) =>
          ~(steps \cap FinalNavSteps # {} /\ steps \cap ScrapeNavSteps # {})
    /\ (pc = "al_final_nav"
        \/ (pc = "scrape_nav" /\ alRet.kind = "ok" /\ alRet.success)) =>
          (Contains(req.url, curUrl) <=> StartsWith(curUrl, req.url))

\* C40: auto_login returns success = true only for a post-submit page that
\* shows no captcha, no two-factor prompt and no credential error, whether
\* or not the evaluations of the classification probes succeed.
C40_NoSuccessOnFlaggedPage ==
    (alRet.kind = "ok" /\ alRet.success /\ post.shown) =>
        /\ ~post.captcha
        /\ ~post.tfa
        /\ ~post.err

=============================================================================
